---------------------------- MODULE Spec2Model ----------------------------
(***************************************************************************)
(* A model of @obiverse/pike-sre: the pattern engine (pattern.ts), the     *)
(* glob matcher (glob.ts), the template substitutor (template.ts), the     *)
(* command algebra (commands.ts) and the lexer (createLexer).              *)
(*                                                                         *)
(* Text is a sequence of one-character strings; offsets are 0-based as in  *)
(* JavaScript, so text offset i is element i + 1 of the sequence.          *)
(***************************************************************************)
EXTENDS Integers, Sequences, FiniteSets, TLC

VARIABLES
    patterns,     \* PatternEngine.patterns: the Map, as its entries in order
    apPc,         \* where the apply call is: "idle", "running", "overrun"
    apDoc,        \* apply's argument `scroll`
    queue,        \* apply's local `queue`
    visited,      \* apply's local `visited`
    reactions,    \* apply's local `reactions`
    last,         \* the engine operation called last, with its arguments
    ret,          \* what that operation returned
    clock,        \* history: how many registrations of a fresh name so far
    stamp,        \* history: name -> clock value of its current registration
    evaluated,    \* history: the (key, type) pairs of the documents this
                  \* apply call has evaluated against the rules
    cmd,          \* what was built: a command (x, y, g, v, xFirst, ifMatch,
                  \* n, l), a lexer, or a glob pattern
    reLastIndex,  \* lastIndex of the RegExp object the command closes over
    cin,          \* the input of its last invocation
    cout,         \* the output of that invocation
    seen,         \* history: the outputs observed so far, per input
    handed        \* history: what the last invocation handed to the
                  \* commands it called, call by call

engineVars == <<patterns, apPc, apDoc, queue, visited, reactions, last, ret,
                clock, stamp, evaluated>>
cmdVars == <<cmd, reLastIndex, cin, cout, seen, handed>>
vars == <<patterns, apPc, apDoc, queue, visited, reactions, last, ret,
          clock, stamp, evaluated, cmd, reLastIndex, cin, cout, seen, handed>>

----------------------------------------------------------------------------
(* Bounds of the model.                                                    *)

\* Keys and payloads longer than this are not followed through a cascade.
MaxStr == 12
\* Registrations of a fresh name in one run.
MaxAdds == 3
\* The longest text a command is invoked on.
MaxText == 2
\* The longest pattern source a command is built from.
MaxSrc == 2

----------------------------------------------------------------------------
(* Strings.                                                                *)

\* String.prototype.slice(from, to) for 0 <= from, to
Slice(s, from, to) ==
    IF from >= to \/ from >= Len(s) THEN <<>>
    ELSE SubSeq(s, from + 1, IF to > Len(s) THEN Len(s) ELSE to)

\* Does pat occur in s at 0-based offset i
OccursAt(s, pat, i) ==
    /\ i + Len(pat) <= Len(s)
    /\ \A k \in 1..Len(pat) : s[i + k] = pat[k]

RECURSIVE SplitFrom(_, _, _, _)
SplitFrom(s, sep, i, cur) ==
    IF i > Len(s) THEN <<cur>>
    ELSE IF s[i] = sep THEN <<cur>> \o SplitFrom(s, sep, i + 1, <<>>)
    ELSE SplitFrom(s, sep, i + 1, Append(cur, s[i]))

\* String.prototype.split(sep) for a one-character separator
Split(s, sep) == SplitFrom(s, sep, 1, <<>>)

RECURSIVE NonEmpty(_)
NonEmpty(ss) ==
    IF ss = <<>> THEN <<>>
    ELSE IF Head(ss) = <<>> THEN NonEmpty(Tail(ss))
    ELSE <<Head(ss)>> \o NonEmpty(Tail(ss))

\* path.split('/').filter((s) => s.length > 0)
parsePath(path) == NonEmpty(Split(path, "/"))

\* The decimal text of a small index
Digits == <<"0", "1", "2", "3", "4", "5", "6", "7", "8", "9">>
IndexText(i) == <<Digits[i + 1]>>

----------------------------------------------------------------------------
(* The host's regular expressions, for sources made of literal characters, *)
(* each optionally starred.  "*" with nothing to repeat and "(" without    *)
(* its ")" are SyntaxErrors.                                               *)

RECURSIVE ParseItems(_, _)
ParseItems(src, i) ==
    IF i > Len(src) THEN <<>>
    ELSE IF i < Len(src) /\ src[i + 1] = "*"
         THEN <<[c |-> src[i], star |-> TRUE]>> \o ParseItems(src, i + 2)
         ELSE <<[c |-> src[i], star |-> FALSE]>> \o ParseItems(src, i + 1)

SourceValid(src) ==
    /\ \A i \in 1..Len(src) : src[i] # "("
    /\ \A i \in 1..Len(src) : src[i] = "*" => (i > 1 /\ src[i - 1] # "*")

\* new RegExp(source, flags): the object, or the SyntaxError it throws.
\* `def` is FALSE for the value undefined.
RegExp(src, global) ==
    [def |-> TRUE, err |-> ~SourceValid(src), source |-> src,
     global |-> global,
     items |-> IF SourceValid(src) THEN ParseItems(src, 1) ELSE <<>>]

Undefined ==
    [def |-> FALSE, err |-> FALSE, source |-> <<>>, global |-> FALSE,
     items |-> <<>>]

NoMatch == -1

\* How many times c repeats in text from offset pos
RECURSIVE RunLength(_, _, _)
RunLength(text, c, pos) ==
    IF pos < Len(text) /\ text[pos + 1] = c
    THEN 1 + RunLength(text, c, pos + 1) ELSE 0

\* The end offset of the match of items[i..] at offset pos that a
\* backtracking matcher finds first (a star is greedy), or NoMatch.
RECURSIVE MatchHere(_, _, _, _)
RECURSIVE StarTry(_, _, _, _, _)
MatchHere(items, i, text, pos) ==
    IF i > Len(items) THEN pos
    ELSE IF items[i].star
         THEN StarTry(items, i, text, pos, RunLength(text, items[i].c, pos))
    ELSE IF pos < Len(text) /\ text[pos + 1] = items[i].c
         THEN MatchHere(items, i + 1, text, pos + 1)
    ELSE NoMatch
StarTry(items, i, text, pos, n) ==
    LET r == MatchHere(items, i + 1, text, pos + n)
    IN  IF r # NoMatch THEN r
        ELSE IF n = 0 THEN NoMatch
        ELSE StarTry(items, i, text, pos, n - 1)

\* The leftmost match starting at or after offset from, as [index, end]
RECURSIVE Search(_, _, _)
Search(re, text, from) ==
    IF from > Len(text) THEN [index |-> NoMatch, end |-> NoMatch]
    ELSE LET e == MatchHere(re.items, 1, text, from)
         IN  IF e # NoMatch THEN [index |-> from, end |-> e]
             ELSE Search(re, text, from + 1)

\* RegExp.prototype.exec / test on an object whose lastIndex is li: the
\* match, and the lastIndex the call leaves.  Only a global regex reads and
\* writes lastIndex.
RegExpExec(re, text, li) ==
    LET from == IF re.global THEN li ELSE 0
        m == Search(re, text, from)
    IN  [m |-> m,
         lastIndex |-> IF ~re.global THEN li
                       ELSE IF m.index = NoMatch THEN 0 ELSE m.end]

\* pattern.test(text) for a regex without the global flag
Test(re, text) == Search(re, text, 0).index # NoMatch

\* [...text.match(re)] for a regex without groups and without the global
\* flag: the whole match, or no captures
MatchCaptures(re, text) ==
    LET m == Search(re, text, 0)
    IN  IF m.index = NoMatch THEN <<>> ELSE <<Slice(text, m.index, m.end)>>

----------------------------------------------------------------------------
(* glob.ts                                                                 *)

RECURSIVE SegmentsOf(_)
SegmentsOf(parts) ==
    IF parts = <<>> THEN <<>>
    ELSE LET part == Head(parts)
         IN  <<IF part = <<"*", "*">> THEN [type |-> "double", value |-> <<>>]
               ELSE IF part = <<"*">> THEN [type |-> "single", value |-> <<>>]
               ELSE [type |-> "literal", value |-> part]>>
             \o SegmentsOf(Tail(parts))

parseGlobSegments(pattern) == SegmentsOf(parsePath(pattern))

\* gi and pi are 0-based, as in the source
RECURSIVE matchSegments(_, _, _, _)
RECURSIVE matchDouble(_, _, _, _, _)
\* `for (let skip = 1; ...)`: a ** that takes one segment at least
matchDoubleFromOne(glob, path, gi, pi, skip) ==
    \E sk \in (skip + 1)..(Len(path) - pi) :
      matchSegments(glob, path, gi + 1, pi + sk)
matchSegments(glob, path, gi, pi) ==
    IF gi >= Len(glob) THEN pi >= Len(path)
    ELSE LET segment == glob[gi + 1]
         IN  IF segment.type = "double" THEN matchDouble(glob, path, gi, pi, 0)
             ELSE IF pi >= Len(path) THEN FALSE
             ELSE IF segment.type = "single"
                  THEN matchSegments(glob, path, gi + 1, pi + 1)
             ELSE IF segment.value # path[pi + 1] THEN FALSE
             ELSE matchSegments(glob, path, gi + 1, pi + 1)
\* the loop `for (let skip = 0; skip <= path.length - pi; skip++)`
matchDouble(glob, path, gi, pi, skip) ==
    IF skip > Len(path) - pi THEN FALSE
    ELSE IF matchSegments(glob, path, gi + 1, pi + skip) THEN TRUE
    ELSE matchDouble(glob, path, gi, pi, skip + 1)

\* compileGlob(pattern).matches(path), with the segments already parsed
globMatches(segments, path) == matchSegments(segments, parsePath(path), 0, 0)

globMatch(pattern, path) == globMatches(parseGlobSegments(pattern), path)

----------------------------------------------------------------------------
(* template.ts                                                             *)

\* The replacement text of String.prototype.replace for a string
\* replacement: $$ gives $ and $& the matched text.  The regexes used here
\* have no groups, so $1.. stay as written; the backquote and the quote of
\* the two remaining forms are not characters of the model's texts.
RECURSIVE GetSubstitution(_, _, _)
GetSubstitution(rep, i, matched) ==
    IF i > Len(rep) THEN <<>>
    ELSE IF rep[i] = "$" /\ i < Len(rep) /\ rep[i + 1] = "$"
         THEN <<"$">> \o GetSubstitution(rep, i + 2, matched)
    ELSE IF rep[i] = "$" /\ i < Len(rep) /\ rep[i + 1] = "&"
         THEN matched \o GetSubstitution(rep, i + 2, matched)
    ELSE <<rep[i]>> \o GetSubstitution(rep, i + 1, matched)

\* s.replace(new RegExp(pat, escaped, with flag g), rep), from offset i
RECURSIVE ReplaceFrom(_, _, _, _)
ReplaceFrom(s, pat, rep, i) ==
    IF i >= Len(s) THEN <<>>
    ELSE IF OccursAt(s, pat, i)
         THEN GetSubstitution(rep, 1, pat)
              \o ReplaceFrom(s, pat, rep, i + Len(pat))
    ELSE <<s[i + 1]>> \o ReplaceFrom(s, pat, rep, i + 1)

ReplaceAll(s, pat, rep) == ReplaceFrom(s, pat, rep, 0)

Letters ==
    {"a", "b", "c", "d", "e", "f", "g", "h", "i", "j", "k", "l", "m", "n",
     "o", "p", "q", "r", "s", "t", "u", "v", "w", "x", "y", "z",
     "A", "B", "C", "D", "E", "F", "G", "H", "I", "J", "K", "L", "M", "N",
     "O", "P", "Q", "R", "S", "T", "U", "V", "W", "X", "Y", "Z"}

\* the class [a-zA-Z0-9_.]
FieldChar(ch) ==
    ch \in Letters \cup {Digits[k] : k \in 1..10} \cup {"_", "."}

RECURSIVE FieldRun(_, _)
FieldRun(s, pos) ==
    IF pos < Len(s) /\ FieldChar(s[pos + 1]) THEN 1 + FieldRun(s, pos + 1)
    ELSE 0

PhData == <<"$", "{", "d", "a", "t", "a", ".">>
PhUuid == <<"$", "{", "u", "u", "i", "d", "}">>
PhInput == <<"$", "{", "i", "n", "p", "u", "t", "}">>
PhCapture(i) == <<"$", "{">> \o IndexText(i) \o <<"}">>
PhPath(i) == <<"$", "{", "p", "a", "t", "h", ".">> \o IndexText(i) \o <<"}">>

\* result.replace(/\$\{data\.([a-zA-Z0-9_.]+)\}/g, callback) for ctx.data
\* = {}: getNestedValue finds nothing and the callback returns ''.
RECURSIVE DataReplaceFrom(_, _)
DataReplaceFrom(s, i) ==
    IF i >= Len(s) THEN <<>>
    ELSE LET n == FieldRun(s, i + Len(PhData))
             close == i + Len(PhData) + n
         IN  IF /\ OccursAt(s, PhData, i)
                /\ n >= 1
                /\ close < Len(s)
                /\ s[close + 1] = "}"
             THEN DataReplaceFrom(s, close + 1)
             ELSE <<s[i + 1]>> \o DataReplaceFrom(s, i + 1)

\* the loop over ctx.captures, from index i
RECURSIVE SubstCaptures(_, _, _)
SubstCaptures(result, captures, i) ==
    IF i >= Len(captures) THEN result
    ELSE SubstCaptures(ReplaceAll(result, PhCapture(i), captures[i + 1]),
                       captures, i + 1)

\* the loop over ctx.path, from index i
RECURSIVE SubstPath(_, _, _)
SubstPath(result, path, i) ==
    IF i >= Len(path) THEN result
    ELSE SubstPath(ReplaceAll(result, PhPath(i), path[i + 1]), path, i + 1)

\* substituteString(template, ctx); id is what its one generateId() call
\* returned.  ctx = [hasCaptures, captures, hasPath, path, hasInput, input,
\* hasData]; the data object is always {}.
substituteString(template, ctx, id) ==
    LET r1 == IF ctx.hasCaptures
              THEN SubstCaptures(template, ctx.captures, 0) ELSE template
        r2 == IF ctx.hasPath THEN SubstPath(r1, ctx.path, 0) ELSE r1
        r3 == ReplaceAll(r2, PhUuid, id)
        r4 == IF ctx.hasInput THEN ReplaceAll(r3, PhInput, ctx.input) ELSE r3
    IN  IF ctx.hasData THEN DataReplaceFrom(r4, 0) ELSE r4

----------------------------------------------------------------------------
(* glob.ts: extractGlobCaptures and globToRegex                            *)

\* extractGlobCaptures: the inner function extract(gi, pi), with the array
\* `captures` it pushes to passed in and handed back, as [ok, captures]
RECURSIVE extract(_, _, _, _, _)
RECURSIVE extractDouble(_, _, _, _, _, _)
extract(segments, pathParts, gi, pi, captures) ==
    IF gi >= Len(segments)
    THEN [ok |-> pi >= Len(pathParts), captures |-> captures]
    ELSE LET segment == segments[gi + 1]
         IN  IF segment.type = "double"
             THEN extractDouble(segments, pathParts, gi, pi, 0, captures)
             ELSE IF pi >= Len(pathParts)
                  THEN [ok |-> FALSE, captures |-> captures]
             ELSE IF segment.type = "single"
                  THEN extract(segments, pathParts, gi + 1, pi + 1,
                               Append(captures, pathParts[pi + 1]))
             ELSE IF segment.value # pathParts[pi + 1]
                  THEN [ok |-> FALSE, captures |-> captures]
             ELSE extract(segments, pathParts, gi + 1, pi + 1, captures)
\* the loop `for (let skip = 0; skip <= pathParts.length - pi; skip++)`
extractDouble(segments, pathParts, gi, pi, skip, captures) ==
    IF skip > Len(pathParts) - pi THEN [ok |-> FALSE, captures |-> captures]
    ELSE LET tempCaptures == Slice(pathParts, pi, pi + skip)
             r == extract(segments, pathParts, gi + 1, pi + skip, captures)
         IN  IF r.ok
             THEN [ok |-> TRUE, captures |-> r.captures \o tempCaptures]
             ELSE extractDouble(segments, pathParts, gi, pi, skip + 1,
                                r.captures)

\* `return []` where the source returns null
extractGlobCapturesEmpty(pattern, path) ==
    LET r == extract(parseGlobSegments(pattern), parsePath(path), 0, 0, <<>>)
    IN  [null |-> FALSE, captures |-> IF r.ok THEN r.captures ELSE <<>>]

\* extractGlobCaptures(pattern, path): the captures, or null
extractGlobCaptures(pattern, path) ==
    LET r == extract(parseGlobSegments(pattern), parsePath(path), 0, 0, <<>>)
    IN  IF r.ok THEN [null |-> FALSE, captures |-> r.captures]
        ELSE [null |-> TRUE, captures |-> <<>>]

\* The characters of the class [.+^${}()|[\]\\]
RegexSpecials ==
    {".", "+", "^", "$", "{", "}", "(", ")", "|", "[", "]", "\\"}

\* pattern.replace(/[.+^${}()|[\]\\]/g, '\\$&')
RECURSIVE EscapeSpecials(_)
EscapeSpecials(s) ==
    IF s = <<>> THEN <<>>
    ELSE (IF Head(s) \in RegexSpecials THEN <<"\\", Head(s)>>
          ELSE <<Head(s)>>)
         \o EscapeSpecials(Tail(s))

\* '\0DOUBLE\0'; "NUL" stands for the character U+0000
DoubleMark == <<"NUL", "D", "O", "U", "B", "L", "E", "NUL">>

\* The source of the regular expression globToRegex builds
globToRegexSource(pattern) ==
    LET regex ==
          ReplaceAll(
            ReplaceAll(
              ReplaceAll(EscapeSpecials(pattern), <<"*", "*">>, DoubleMark),
              <<"*">>, <<"[", "^", "/", "]", "+">>),
            DoubleMark, <<".", "*">>)
    IN  <<"^", "/", "?">> \o regex \o <<"/", "?", "$">>

\* new RegExp(source) for the sources globToRegex builds: the pieces ^, $,
\* [^/]+, .*, an escaped character, a character followed by ?, a character
RECURSIVE GlobRegexPieces(_, _)
GlobRegexPieces(src, i) ==
    IF i > Len(src) THEN <<>>
    ELSE IF src[i] = "^"
         THEN <<[t |-> "bol", c |-> ""]>> \o GlobRegexPieces(src, i + 1)
    ELSE IF src[i] = "$"
         THEN <<[t |-> "eol", c |-> ""]>> \o GlobRegexPieces(src, i + 1)
    ELSE IF src[i] = "\\" /\ i < Len(src)
         THEN <<[t |-> "lit", c |-> src[i + 1]]>>
              \o GlobRegexPieces(src, i + 2)
    ELSE IF /\ src[i] = "["
            /\ i + 4 <= Len(src)
            /\ SubSeq(src, i, i + 4) = <<"[", "^", "/", "]", "+">>
         THEN <<[t |-> "seg", c |-> ""]>> \o GlobRegexPieces(src, i + 5)
    ELSE IF src[i] = "." /\ i < Len(src) /\ src[i + 1] = "*"
         THEN <<[t |-> "any", c |-> ""]>> \o GlobRegexPieces(src, i + 2)
    ELSE IF i < Len(src) /\ src[i + 1] = "?"
         THEN <<[t |-> "opt", c |-> src[i]]>> \o GlobRegexPieces(src, i + 2)
    ELSE <<[t |-> "lit", c |-> src[i]]>> \o GlobRegexPieces(src, i + 1)

\* globToRegex(pattern)
globToRegex(pattern) ==
    LET source == globToRegexSource(pattern)
    IN  [source |-> source, pieces |-> GlobRegexPieces(source, 1)]

\* How many characters other than "/" follow offset pos
RECURSIVE SegRun(_, _)
SegRun(text, pos) ==
    IF pos < Len(text) /\ text[pos + 1] # "/"
    THEN 1 + SegRun(text, pos + 1) ELSE 0

\* Do pieces[i..] match the text at offset pos
RECURSIVE PiecesMatch(_, _, _, _)
PiecesMatch(pieces, i, text, pos) ==
    IF i > Len(pieces) THEN TRUE
    ELSE LET p == pieces[i]
             HasChar == pos < Len(text) /\ text[pos + 1] = p.c
         IN  CASE p.t = "bol" ->
                    pos = 0 /\ PiecesMatch(pieces, i + 1, text, pos)
               [] p.t = "eol" ->
                    pos = Len(text) /\ PiecesMatch(pieces, i + 1, text, pos)
               [] p.t = "lit" ->
                    HasChar /\ PiecesMatch(pieces, i + 1, text, pos + 1)
               [] p.t = "opt" ->
                    \/ HasChar /\ PiecesMatch(pieces, i + 1, text, pos + 1)
                    \/ PiecesMatch(pieces, i + 1, text, pos)
               [] p.t = "seg" ->
                    \E k \in 1..SegRun(text, pos) :
                      PiecesMatch(pieces, i + 1, text, pos + k)
               [] OTHER ->
                    \E k \in 0..(Len(text) - pos) :
                      PiecesMatch(pieces, i + 1, text, pos + k)

\* globToRegex(pattern).test(path)
GlobRegexTest(re, path) ==
    \E from \in 0..Len(path) : PiecesMatch(re.pieces, 1, path, from)

----------------------------------------------------------------------------
(* pattern.ts: rules and documents                                         *)

\* A Scroll.  `null` marks the value null; a scroll given by a caller
\* carries no metadata (version 0, produced_by "").
Null ==
    [null |-> TRUE, key |-> <<>>, type |-> <<>>, version |-> 0,
     produced_by |-> "", data |-> <<>>]

Scroll(key, type, data) ==
    [null |-> FALSE, key |-> key, type |-> type, version |-> 0,
     produced_by |-> "", data |-> data]

\* compilePattern(def), when no `new RegExp` throws
compilePattern(def) ==
    [name |-> def.name,
     watch |-> def.watch,
     segments |-> parseGlobSegments(def.watch),
     x |-> IF def.x # <<>> THEN RegExp(def.x, FALSE) ELSE Undefined,
     g |-> IF def.g # <<>> THEN RegExp(def.g, FALSE) ELSE Undefined,
     v |-> IF def.v # <<>> THEN RegExp(def.v, FALSE) ELSE Undefined,
     emit |-> def.emit,
     emit_path |-> def.emit_path,
     template |-> def.template,
     then |-> def.then]

\* Does compilePattern(def) throw a SyntaxError
compileThrows(def) ==
    \/ def.x # <<>> /\ RegExp(def.x, FALSE).err
    \/ def.g # <<>> /\ RegExp(def.g, FALSE).err
    \/ def.v # <<>> /\ RegExp(def.v, FALSE).err

\* Step 4 of applyPattern: the captures of the extract pattern
extractCaptures(pattern, dataStr) ==
    IF pattern.x.def THEN MatchCaptures(pattern.x, dataStr) ELSE <<>>

\* Step 5 of applyPattern: the template context
templateContext(pattern, scroll) ==
    [hasCaptures |-> TRUE, captures |-> extractCaptures(pattern, scroll.data),
     hasPath |-> TRUE, path |-> parsePath(scroll.key),
     hasInput |-> TRUE, input |-> scroll.data,
     hasData |-> TRUE]

\* Steps 6 and 7 of applyPattern: the reaction, once the rule has passed
buildReaction(pattern, scroll, idPath, idData) ==
    LET ctx == templateContext(pattern, scroll)
    IN  [null |-> FALSE,
         key |-> substituteString(pattern.emit_path, ctx, idPath),
         type |-> pattern.emit,
         version |-> 1,
         produced_by |-> pattern.name,
         data |-> substituteString(pattern.template, ctx, idData)]

\* applyPattern with an extract pattern that must match for the rule to fire
applyPatternStrictExtract(pattern, scroll, idPath, idData) ==
    IF ~globMatches(pattern.segments, scroll.key) THEN Null
    ELSE IF pattern.g.def /\ ~Test(pattern.g, scroll.data) THEN Null
    ELSE IF pattern.v.def /\ Test(pattern.v, scroll.data) THEN Null
    ELSE IF pattern.x.def /\ ~Test(pattern.x, scroll.data) THEN Null
    ELSE buildReaction(pattern, scroll, idPath, idData)

\* applyPattern(pattern, scroll); the payload is a string, so it is its own
\* serialisation.  idPath and idData are the identifiers generated by the
\* two substituteString calls.
applyPattern(pattern, scroll, idPath, idData) ==
    IF ~globMatches(pattern.segments, scroll.key) THEN Null
    ELSE IF pattern.g.def /\ ~Test(pattern.g, scroll.data) THEN Null
    ELSE IF pattern.v.def /\ Test(pattern.v, scroll.data) THEN Null
    ELSE buildReaction(pattern, scroll, idPath, idData)

----------------------------------------------------------------------------
(* The Map holding the rules: entries [key, value] in insertion order      *)

MapHas(m, key) == \E i \in 1..Len(m) : m[i].key = key

MapIndex(m, key) == CHOOSE i \in 1..Len(m) : m[i].key = key

\* A map whose set moves an existing key to the end
MapSetMoveToEnd(m, key, value) ==
    Append(SelectSeq(m, LAMBDA e : e.key # key), [key |-> key, value |-> value])

\* Map.prototype.set: an existing key keeps its place
MapSet(m, key, value) ==
    IF MapHas(m, key)
    THEN [m EXCEPT ![MapIndex(m, key)] = [key |-> key, value |-> value]]
    ELSE Append(m, [key |-> key, value |-> value])

\* Map.prototype.delete: the map without the key
RECURSIVE MapDelete(_, _)
MapDelete(m, key) ==
    IF m = <<>> THEN <<>>
    ELSE IF Head(m).key = key THEN Tail(m)
    ELSE <<Head(m)>> \o MapDelete(Tail(m), key)

\* Array.from(m.keys())
MapKeys(m) == [i \in 1..Len(m) |-> m[i].key]

\* m.values(), in iteration order
MapValues(m) == [i \in 1..Len(m) |-> m[i].value]

----------------------------------------------------------------------------
(* The inputs the engine is driven with                                    *)

Names == {"A", "B"}

Def(name, watch, x, g, v, emit, emit_path, template, then) ==
    [name |-> name, watch |-> watch, x |-> x, g |-> g, v |-> v,
     emit |-> emit, emit_path |-> emit_path, template |-> template,
     then |-> then]

GlobAll == <<"/", "*", "*">>
GlobX == <<"/", "x">>
GlobAStar == <<"/", "a", "/", "*">>

PatternDefs ==
    { \* fires everywhere, hands its reaction to B
      Def("A", GlobAll, <<>>, <<>>, <<>>, <<"t">>, <<"/", "x">>,
          PhInput \o <<"b">>, "B"),
      \* guarded, extracts, no cascade
      Def("B", GlobX, <<"a", "*">>, <<"b">>, <<>>, <<"u">>,
          <<"/", "y", "/">> \o PhPath(0), PhCapture(0), ""),
      \* hands its reaction to itself, under a key built from the document's
      Def("A", GlobAll, <<>>, <<>>, <<>>, <<"t">>,
          <<"/">> \o PhPath(0) \o <<"x">>, <<>>, "A"),
      \* vetoed on "b", so its extract pattern never matches
      Def("B", GlobAStar, <<"b">>, <<>>, <<"b">>, <<"u">>,
          <<"/", "o", "/">> \o PhUuid, PhCapture(0), ""),
      \* guarded, no cascade
      Def("A", GlobAStar, <<>>, <<"a">>, <<>>, <<"t">>,
          <<"/", "l", "/">> \o PhPath(1), PhInput, ""),
      \* hands its reaction back to A
      Def("B", GlobX, <<>>, <<>>, <<>>, <<"t">>, <<"/", "a">>, <<"a">>, "A"),
      \* sources that are no regular expressions
      Def("A", GlobAll, <<"(">>, <<>>, <<>>, <<"t">>, <<"/", "x">>, <<>>, ""),
      Def("B", GlobAll, <<>>, <<"*">>, <<>>, <<"u">>, <<"/", "y">>, <<>>, "")
    }

Scrolls ==
    { Scroll(<<"/", "x">>, <<"t">>, <<"a">>),
      Scroll(<<"/", "a", "/", "b">>, <<"t">>, <<"a", "b">>),
      Scroll(<<"/", "a", "/", "/", "c", "/">>, <<"u">>, <<"a">>) }

\* Values generateId() may return (8 hex digits)
Ids ==
    { <<"0", "0", "0", "0", "0", "0", "0", "a">>,
      <<"0", "0", "0", "0", "0", "0", "0", "b">> }

----------------------------------------------------------------------------
(* PatternEngine                                                           *)

NoDef == Def("", <<>>, <<>>, <<>>, <<>>, <<>>, <<>>, <<>>, "")
Call(op, name, scroll) ==
    [op |-> op, name |-> name, scroll |-> scroll, def |-> NoDef]
NoArg == Call("none", "", Null)
Ret(kind, val) == [kind |-> kind, val |-> val]

\* The loop of apply pushing each reaction in front of the earlier ones
RECURSIVE evalRulesReversed(_, _, _, _, _)
evalRulesReversed(m, current, idsP, idsD, i) ==
    IF i > Len(m) THEN [reactions |-> <<>>, enq |-> <<>>]
    ELSE LET pattern == m[i].value
             reaction == applyPattern(pattern, current, idsP[i], idsD[i])
             rest == evalRulesReversed(m, current, idsP, idsD, i + 1)
         IN  IF reaction.null THEN rest
             ELSE [reactions |-> rest.reactions \o <<reaction>>,
                   enq |-> IF pattern.then # "" /\ MapHas(m, pattern.then)
                           THEN rest.enq \o <<reaction>>
                           ELSE rest.enq]

\* The `for (const pattern of this.patterns.values())` loop of apply on
\* one document, from rule i: the reactions pushed and those enqueued.
RECURSIVE evalRules(_, _, _, _, _)
evalRules(m, current, idsP, idsD, i) ==
    IF i > Len(m) THEN [reactions |-> <<>>, enq |-> <<>>]
    ELSE LET pattern == m[i].value
             reaction == applyPattern(pattern, current, idsP[i], idsD[i])
             rest == evalRules(m, current, idsP, idsD, i + 1)
         IN  IF reaction.null THEN rest
             ELSE [reactions |-> <<reaction>> \o rest.reactions,
                   enq |-> IF pattern.then # "" /\ MapHas(m, pattern.then)
                           THEN <<reaction>> \o rest.enq
                           ELSE rest.enq]

\* const key = `${current.key}:${current.type}`
visitKey(current) == current.key \o <<":">> \o current.type

\* wouldMatch without the veto test
RECURSIVE wouldMatchNoVeto(_, _, _)
wouldMatchNoVeto(m, scroll, i) ==
    IF i > Len(m) THEN <<>>
    ELSE LET pattern == m[i].value
             rest == wouldMatchNoVeto(m, scroll, i + 1)
         IN  IF ~globMatches(pattern.segments, scroll.key) THEN rest
             ELSE IF pattern.g.def /\ ~Test(pattern.g, scroll.data) THEN rest
             ELSE <<m[i].key>> \o rest

\* wouldMatch(scroll), from entry i
RECURSIVE wouldMatchFrom(_, _, _)
wouldMatchFrom(m, scroll, i) ==
    IF i > Len(m) THEN <<>>
    ELSE LET pattern == m[i].value
             rest == wouldMatchFrom(m, scroll, i + 1)
         IN  IF ~globMatches(pattern.segments, scroll.key) THEN rest
             ELSE IF pattern.g.def /\ ~Test(pattern.g, scroll.data) THEN rest
             ELSE IF pattern.v.def /\ Test(pattern.v, scroll.data) THEN rest
             ELSE <<m[i].key>> \o rest

wouldMatch(m, scroll) == wouldMatchFrom(m, scroll, 1)

\* applyOne(patternName, scroll)
applyOne(m, patternName, scroll, idPath, idData) ==
    IF ~MapHas(m, patternName) THEN Null
    ELSE applyPattern(m[MapIndex(m, patternName)].value, scroll, idPath,
                      idData)

\* add(def) registering the rule before its sources are compiled
patternsAfterAddLazy(m, def) ==
    MapSet(m, compilePattern(def).name, compilePattern(def))

\* The registry after add(def)
patternsAfterAdd(m, def) ==
    IF compileThrows(def) THEN m
    ELSE MapSet(m, compilePattern(def).name, compilePattern(def))

Idle == apPc = "idle"

ApplyLocals == <<apPc, apDoc, queue, visited, reactions, evaluated>>

Add(def) ==
    /\ Idle
    /\ MapHas(patterns, def.name) \/ compileThrows(def) \/ clock < MaxAdds
    /\ patterns' = patternsAfterAdd(patterns, def)
    /\ last' = [Call("add", def.name, Null) EXCEPT !.def = def]
    /\ ret' = IF compileThrows(def) THEN Ret("threw", "SyntaxError")
              ELSE Ret("compiled", compilePattern(def))
    /\ IF compileThrows(def) \/ MapHas(patterns, def.name)
       THEN UNCHANGED <<clock, stamp>>
       ELSE /\ clock' = clock + 1
            /\ stamp' = [stamp EXCEPT ![def.name] = clock + 1]
    /\ UNCHANGED ApplyLocals
    /\ UNCHANGED cmdVars

Remove(name) ==
    /\ Idle
    /\ patterns' = MapDelete(patterns, name)
    /\ last' = Call("remove", name, Null)
    /\ ret' = Ret("bool", MapHas(patterns, name))
    /\ stamp' = [stamp EXCEPT ![name] = 0]
    /\ UNCHANGED <<clock, ApplyLocals>>
    /\ UNCHANGED cmdVars

Clear ==
    /\ Idle
    /\ patterns' = <<>>
    /\ last' = Call("clear", "", Null)
    /\ ret' = Ret("none", 0)
    /\ stamp' = [n \in Names |-> 0]
    /\ UNCHANGED <<clock, ApplyLocals>>
    /\ UNCHANGED cmdVars

Get(name) ==
    /\ Idle
    /\ last' = Call("get", name, Null)
    /\ ret' = IF MapHas(patterns, name)
              THEN Ret("pattern", patterns[MapIndex(patterns, name)].value)
              ELSE Ret("undefined", 0)
    /\ UNCHANGED <<patterns, clock, stamp, ApplyLocals>>
    /\ UNCHANGED cmdVars

List ==
    /\ Idle
    /\ last' = Call("list", "", Null)
    /\ ret' = Ret("names", MapKeys(patterns))
    /\ UNCHANGED <<patterns, clock, stamp, ApplyLocals>>
    /\ UNCHANGED cmdVars

Size ==
    /\ Idle
    /\ last' = Call("size", "", Null)
    /\ ret' = Ret("number", Len(patterns))
    /\ UNCHANGED <<patterns, clock, stamp, ApplyLocals>>
    /\ UNCHANGED cmdVars

\* applyOne taking the rule out of the registry once it has been applied
ApplyOneConsuming(name, scroll, idPath, idData) ==
    /\ Idle
    /\ last' = Call("applyOne", name, scroll)
    /\ ret' = Ret("scroll", applyOne(patterns, name, scroll, idPath, idData))
    /\ patterns' = MapDelete(patterns, name)
    /\ UNCHANGED <<clock, stamp, ApplyLocals>>
    /\ UNCHANGED cmdVars

ApplyOne(name, scroll, idPath, idData) ==
    /\ Idle
    /\ last' = Call("applyOne", name, scroll)
    /\ ret' = Ret("scroll", applyOne(patterns, name, scroll, idPath, idData))
    /\ UNCHANGED <<patterns, clock, stamp, ApplyLocals>>
    /\ UNCHANGED cmdVars

WouldMatch(scroll) ==
    /\ Idle
    /\ last' = Call("wouldMatch", "", scroll)
    /\ ret' = Ret("names", wouldMatch(patterns, scroll))
    /\ UNCHANGED <<patterns, clock, stamp, ApplyLocals>>
    /\ UNCHANGED cmdVars

\* apply(scroll), up to its loop
ApplyStart(scroll) ==
    /\ Idle
    /\ apPc' = "running"
    /\ apDoc' = scroll
    /\ queue' = <<scroll>>
    /\ visited' = {}
    /\ evaluated' = {}
    /\ reactions' = <<>>
    /\ last' = Call("apply", "", scroll)
    /\ ret' = Ret("pending", 0)
    /\ UNCHANGED <<patterns, clock, stamp>>
    /\ UNCHANGED cmdVars

\* One turn of the loop on a document already visited: `continue`
ApplySkip ==
    /\ apPc = "running"
    /\ queue # <<>>
    /\ visitKey(Head(queue)) \in visited
    /\ queue' = Tail(queue)
    /\ UNCHANGED <<patterns, apPc, apDoc, visited, reactions, last, ret,
                   clock, stamp, evaluated>>
    /\ UNCHANGED cmdVars

\* Is the document within the range the model follows through a cascade
Followed(scroll) == Len(scroll.key) <= MaxStr /\ Len(scroll.data) <= MaxStr

\* One turn of the loop on a new document.  When a document it enqueues
\* lies beyond MaxStr the call is still running, and is followed no further.
ApplyEval(idsP, idsD) ==
    /\ apPc = "running"
    /\ queue # <<>>
    /\ visitKey(Head(queue)) \notin visited
    /\ LET out == evalRules(patterns, Head(queue), idsP, idsD, 1)
       IN  /\ visited' = visited \cup {visitKey(Head(queue))}
           /\ evaluated' =
                evaluated \cup {<<Head(queue).key, Head(queue).type>>}
           /\ reactions' = reactions \o out.reactions
           /\ IF \A i \in 1..Len(out.enq) : Followed(out.enq[i])
              THEN /\ queue' = Tail(queue) \o out.enq
                   /\ apPc' = apPc
              ELSE /\ queue' = Tail(queue)
                   /\ apPc' = "overrun"
    /\ UNCHANGED <<patterns, apDoc, last, ret, clock, stamp>>
    /\ UNCHANGED cmdVars

\* The loop has ended: `return reactions`
ApplyReturn ==
    /\ apPc = "running"
    /\ queue = <<>>
    /\ ret' = Ret("scrolls", reactions)
    /\ apPc' = "idle"
    /\ apDoc' = Null
    /\ visited' = {}
    /\ evaluated' = {}
    /\ reactions' = <<>>
    /\ UNCHANGED <<patterns, queue, last, clock, stamp>>
    /\ UNCHANGED cmdVars

IdChoices == [1..Len(patterns) -> Ids]

InitEngine ==
    /\ patterns = <<>>
    /\ apPc = "idle"
    /\ apDoc = Null
    /\ queue = <<>>
    /\ visited = {}
    /\ evaluated = {}
    /\ reactions = <<>>
    /\ last = NoArg
    /\ ret = Ret("none", 0)
    /\ clock = 0
    /\ stamp = [n \in Names |-> 0]

----------------------------------------------------------------------------
(* commands.ts                                                             *)

\* Where the next exec starts after a match: every match moves it by one
scanAfterSkips(r) == r.lastIndex + 1

\* Where the next exec starts after a match: lastIndex as exec left it, and
\* one further after a zero-length match (`global.lastIndex++`)
scanAfter(r) == IF r.m.end = r.m.index THEN r.lastIndex + 1 ELSE r.lastIndex

\* The loop of findMatches on its own global copy of the pattern, from
\* lastIndex li: Match records {text, start, end, groups}; the patterns have
\* no capture groups, so groups is <<text>>.
RECURSIVE findLoop(_, _, _)
findLoop(global, text, li) ==
    LET r == RegExpExec(global, text, li)
    IN  IF r.m.index = NoMatch THEN <<>>
        ELSE <<[text |-> Slice(text, r.m.index, r.m.end),
                start |-> r.m.index,
                end |-> r.m.end,
                groups |-> <<Slice(text, r.m.index, r.m.end)>>]>>
             \o findLoop(global, text, scanAfter(r))

findMatches(pattern, text) == findLoop(RegExp(pattern.source, TRUE), text, 0)

\* input.replace(global, replacement) from match i on: the text between the
\* matches is kept and each match is replaced by the expanded replacement
RECURSIVE sLoop(_, _, _, _, _)
sLoop(input, matches, replacement, i, lastEnd) ==
    IF i > Len(matches) THEN Slice(input, lastEnd, Len(input))
    ELSE Slice(input, lastEnd, matches[i].start)
         \o GetSubstitution(replacement, 1, matches[i].text)
         \o sLoop(input, matches, replacement, i + 1, matches[i].end)

\* s(pattern, replacement)(input): replace on a global copy of the pattern,
\* which finds the matches findMatches finds
s(pattern, replacement, input) ==
    sLoop(input, findMatches(pattern, input), replacement, 1, 0)

\* The inner commands: p(), d(), c(replacement), and the caller's function
\* str => '[' + str + ']'
InnerCmds ==
    { [op |-> "p", arg |-> <<>>], [op |-> "d", arg |-> <<>>],
      [op |-> "c", arg |-> <<"z">>], [op |-> "wrap", arg |-> <<>>] }

run(c, input) ==
    CASE c.op = "p" -> input
      [] c.op = "d" -> <<>>
      [] c.op = "c" -> c.arg
      [] c.op = "s" -> s(c.pattern, c.arg, input)
      [] OTHER -> <<"[">> \o input \o <<"]">>

\* `lastEnd = match.start`: the match is copied again with the next gap
nextEndStart(match) == match.start

\* `lastEnd = match.end` in the loops of x and y
nextEnd(match) == match.end

\* The loop of x from match i, and the text kept after the last match
RECURSIVE xLoop(_, _, _, _, _)
xLoop(input, matches, c, i, lastEnd) ==
    IF i > Len(matches) THEN Slice(input, lastEnd, Len(input))
    ELSE Slice(input, lastEnd, matches[i].start)
         \o run(c, matches[i].text)
         \o xLoop(input, matches, c, i + 1, nextEnd(matches[i]))

\* x whose no-match default is the command's output
xRunsOnNoMatch(pattern, c, input) ==
    LET matches == findMatches(pattern, input)
    IN  IF Len(matches) = 0 THEN run(c, input)
        ELSE xLoop(input, matches, c, 1, 0)

x(pattern, c, input) ==
    LET matches == findMatches(pattern, input)
    IN  IF Len(matches) = 0 THEN input ELSE xLoop(input, matches, c, 1, 0)

\* The loop of y from match i, and the text after the last match
RECURSIVE yLoop(_, _, _, _, _)
yLoop(input, matches, c, i, lastEnd) ==
    IF i > Len(matches)
    THEN IF lastEnd < Len(input)
         THEN run(c, Slice(input, lastEnd, Len(input))) ELSE <<>>
    ELSE (IF matches[i].start > lastEnd
          THEN run(c, Slice(input, lastEnd, matches[i].start)) ELSE <<>>)
         \o matches[i].text
         \o yLoop(input, matches, c, i + 1, nextEnd(matches[i]))

\* y whose no-match default is the input itself
yKeepsOnNoMatch(pattern, c, input) ==
    LET matches == findMatches(pattern, input)
    IN  IF Len(matches) = 0 THEN input
        ELSE yLoop(input, matches, c, 1, 0)

y(pattern, c, input) ==
    LET matches == findMatches(pattern, input)
    IN  IF Len(matches) = 0 THEN run(c, input)
        ELSE yLoop(input, matches, c, 1, 0)

\* What x hands to its command: each match, in order; nothing without a
\* match
xHanded(pattern, input) ==
    LET matches == findMatches(pattern, input)
    IN  [i \in 1..Len(matches) |-> matches[i].text]

\* What the loop of y hands to its command from match i on: each non-empty
\* gap before a match and the non-empty text after the last match
RECURSIVE yHandedLoop(_, _, _, _)
yHandedLoop(input, matches, i, lastEnd) ==
    IF i > Len(matches)
    THEN IF lastEnd < Len(input)
         THEN <<Slice(input, lastEnd, Len(input))>> ELSE <<>>
    ELSE (IF matches[i].start > lastEnd
          THEN <<Slice(input, lastEnd, matches[i].start)>> ELSE <<>>)
         \o yHandedLoop(input, matches, i + 1, nextEnd(matches[i]))

\* What y hands to its command: the whole input without a match
yHanded(pattern, input) ==
    LET matches == findMatches(pattern, input)
    IN  IF Len(matches) = 0 THEN <<input>>
        ELSE yHandedLoop(input, matches, 1, 0)

\* pattern.test(input) on the pattern object itself, whose lastIndex is li
testOn(pattern, input, li) ==
    LET r == RegExpExec(pattern, input, li)
    IN  [matched |-> r.m.index # NoMatch, lastIndex |-> r.lastIndex]

\* input.match(pattern): match[0], and the lastIndex left.  With the global
\* flag match() starts from 0 and leaves lastIndex 0.
matchOn(pattern, input, li) ==
    LET m == Search(pattern, input, 0)
    IN  [matched |-> m.index # NoMatch,
         text |-> IF m.index = NoMatch THEN <<>>
                  ELSE Slice(input, m.index, m.end),
         lastIndex |-> IF pattern.global THEN 0 ELSE li]

\* One invocation of the command on input, the pattern object's lastIndex
\* being li: the output and the lastIndex left.
invoke(k, input, li) ==
    CASE k.kind = "x" -> [out |-> x(k.pattern, k.inner, input),
                          lastIndex |-> li,
                          handed |-> xHanded(k.pattern, input)]
      [] k.kind = "y" -> [out |-> y(k.pattern, k.inner, input),
                          lastIndex |-> li,
                          handed |-> yHanded(k.pattern, input)]
      [] k.kind = "g" ->
           LET t == testOn(k.pattern, input, li)
           IN  [out |-> IF t.matched THEN run(k.inner, input) ELSE input,
                lastIndex |-> t.lastIndex,
                handed |-> IF t.matched THEN <<input>> ELSE <<>>]
      [] k.kind = "v" ->
           LET t == testOn(k.pattern, input, li)
           IN  [out |-> IF ~t.matched THEN run(k.inner, input) ELSE input,
                lastIndex |-> t.lastIndex,
                handed |-> IF ~t.matched THEN <<input>> ELSE <<>>]
      [] k.kind = "xFirst" ->
           LET m == matchOn(k.pattern, input, li)
           IN  [out |-> IF ~m.matched THEN input ELSE run(k.inner, m.text),
                lastIndex |-> m.lastIndex,
                handed |-> IF ~m.matched THEN <<>> ELSE <<m.text>>]
      [] OTHER ->
           LET t == testOn(k.pattern, input, li)
           IN  [out |-> IF t.matched THEN run(k.inner, input)
                        ELSE run(k.other, input),
                lastIndex |-> t.lastIndex,
                handed |-> <<input>>]

\* Texts over {a, b} and the pattern sources over {a, b, *} that compile
Strings(alphabet, n) == UNION {[1..k -> alphabet] : k \in 0..n}
Texts == Strings({"a", "b"}, MaxText)
Sources ==
    {src \in Strings({"a", "b", "*"}, MaxSrc) : src # <<>> /\ SourceValid(src)}

Kinds == {"x", "y", "g", "v", "xFirst", "ifMatch"}

Commands(kinds) ==
    {[kind |-> kind, pattern |-> RegExp(src, global), inner |-> c,
      other |-> [op |-> "p", arg |-> <<>>]] :
        kind \in kinds, src \in Sources, global \in BOOLEAN, c \in InnerCmds}

NoCommand ==
    [kind |-> "none", pattern |-> Undefined,
     inner |-> [op |-> "p", arg |-> <<>>], other |-> [op |-> "p", arg |-> <<>>]]

Unseen == [calls |-> 0, in |-> <<>>, out |-> <<>>]

\* The command is invoked on T.  `seen` remembers the first invocation and
\* whether a later one was on the same input.
Invoke(T) ==
    /\ cmd.kind # "none"
    /\ LET r == invoke(cmd, T, reLastIndex)
       IN  /\ cin' = T
           /\ cout' = r.out
           /\ reLastIndex' = r.lastIndex
           /\ handed' = r.handed
           /\ seen' = IF seen.calls = 0
                      THEN [calls |-> 1, in |-> T, out |-> r.out]
                      ELSE [seen EXCEPT !.calls = 2]
    /\ UNCHANGED <<cmd, engineVars>>

CmdRest ==
    /\ reLastIndex = 0
    /\ cin = <<>>
    /\ cout = <<>>
    /\ seen = Unseen
    /\ handed = <<>>

----------------------------------------------------------------------------
(* commands.ts: the range commands n and l                                 *)

\* The longest text a range command is invoked on; range indices run one
\* past it on both sides.
MaxLine == 3

MathMax(a, b) == IF a >= b THEN a ELSE b
MathMin(a, b) == IF a <= b THEN a ELSE b

\* Array.prototype.join(sep) of an array of strings
RECURSIVE Join(_, _)
Join(ss, sep) ==
    IF ss = <<>> THEN <<>>
    ELSE IF Len(ss) = 1 THEN Head(ss)
    ELSE Head(ss) \o <<sep>> \o Join(Tail(ss), sep)

\* The `end` argument: a number, or undefined
EndAt(i) == [def |-> TRUE, val |-> i]
EndAbsent == [def |-> FALSE, val |-> 0]

\* `start = 0` whenever start is negative: no counting from the end
startIdxNoMirror(start, len) == IF start < 0 THEN 0 ELSE MathMin(start, len)

\* start < 0 ? Math.max(0, len + start) : Math.min(start, len)
startIdxOf(start, len) ==
    IF start < 0 THEN MathMax(0, len + start) ELSE MathMin(start, len)

\* end === undefined ? len
\*   : end < 0 ? Math.max(0, len + end) : Math.min(end, len)
endIdxOf(end, len) ==
    IF ~end.def THEN len
    ELSE IF end.val < 0 THEN MathMax(0, len + end.val)
    ELSE MathMin(end.val, len)

\* n(start, end, cmd)(input)
n(start, end, c, input) ==
    LET len == Len(input)
        startIdx == startIdxOf(start, len)
        endIdx == endIdxOf(end, len)
        before == Slice(input, 0, startIdx)
        selected == Slice(input, startIdx, endIdx)
        after == Slice(input, endIdx, len)
    IN  before \o run(c, selected) \o after

\* l(start, end, cmd)(input)
l(start, end, c, input) ==
    LET lines == Split(input, "\n")
        len == Len(lines)
        startIdx == startIdxOf(start, len)
        endIdx == endIdxOf(end, len)
        before == Slice(lines, 0, startIdx)
        selected == Slice(lines, startIdx, endIdx)
        after == Slice(lines, endIdx, len)
        transformedSelected == Split(run(c, Join(selected, "\n")), "\n")
    IN  Join(before \o transformedSelected \o after, "\n")

invokeRange(k, input) ==
    IF k.kind = "n" THEN n(k.start, k.end, k.inner, input)
    ELSE l(k.start, k.end, k.inner, input)

RangeTexts == Strings({"a", "b", "\n"}, MaxLine)
Indices == (0 - MaxLine - 1)..(MaxLine + 1)
Ends == {EndAbsent} \cup {EndAt(i) : i \in Indices}

RangeCommands ==
    {[kind |-> kind, start |-> start, end |-> end, inner |-> c] :
        kind \in {"n", "l"}, start \in Indices, end \in Ends, c \in InnerCmds}

\* The range command just built is invoked on T; `seen` holds the
\* invocation.
InvokeRange(T) ==
    /\ cmd.kind \in {"n", "l"}
    /\ seen = Unseen
    /\ LET out == invokeRange(cmd, T)
       IN  /\ cin' = T
           /\ cout' = out
           /\ seen' = [calls |-> 1, in |-> T, out |-> out]
    /\ UNCHANGED <<cmd, reLastIndex, handed, engineVars>>

----------------------------------------------------------------------------
(* createLexer                                                             *)

\* The most token definitions a lexer is built from.
MaxDefs == 2
\* The longest input a lexer is run on.
MaxLexText == 3

\* The RegExp objects the caller hands to createLexer are written as a
\* sequence of atoms, each matching one character: a literal `a`, an escaped
\* parenthesis `\(`, a class `[(]`, a capturing group `(a)`, a non-capturing
\* group `(?:a)` or a named group `(?<n>a)`; a literal may carry a star.
LexAtom(form, c, star) == [form |-> form, c |-> c, star |-> star]

\* RegExp.prototype.source of one atom
AtomSource(a) ==
    (CASE a.form = "lit" -> <<a.c>>
       [] a.form = "esc" -> <<"\\", a.c>>
       [] a.form = "class" -> <<"[", a.c, "]">>
       [] a.form = "group" -> <<"(", a.c, ")">>
       [] a.form = "noncap" -> <<"(", "?", ":", a.c, ")">>
       [] OTHER -> <<"(", "?", "<", "n", ">", a.c, ")">>)
    \o (IF a.star THEN <<"*">> ELSE <<>>)

RECURSIVE AtomsSource(_)
AtomsSource(atoms) ==
    IF atoms = <<>> THEN <<>>
    ELSE AtomSource(Head(atoms)) \o AtomsSource(Tail(atoms))

\* What the atoms capture when the pattern matches: one group per capturing
\* or named group, in order
RECURSIVE AtomsCaptures(_)
AtomsCaptures(atoms) ==
    IF atoms = <<>> THEN <<>>
    ELSE (IF Head(atoms).form \in {"group", "named"}
          THEN <<<<Head(atoms).c>>>> ELSE <<>>)
         \o AtomsCaptures(Tail(atoms))

\* The RegExp object: its source, what it matches, what it captures
LexRegExp(atoms) ==
    [source |-> AtomsSource(atoms),
     items |-> [i \in 1..Len(atoms) |->
                  [c |-> atoms[i].c, star |-> atoms[i].star]],
     captures |-> AtomsCaptures(atoms)]

TokenDef(name, pattern, skip) ==
    [name |-> name, pattern |-> pattern, skip |-> skip]

\* countGroups(pattern), the scan from 0-based offset i
RECURSIVE countGroupsFrom(_, _)
countGroupsFrom(pattern, i) ==
    IF i >= Len(pattern) THEN 0
    ELSE IF pattern[i + 1] = "\\" THEN countGroupsFrom(pattern, i + 2)
    ELSE (IF /\ pattern[i + 1] = "("
             /\ ~(i + 1 < Len(pattern) /\ pattern[i + 2] = "?")
          THEN 1 ELSE 0)
         + countGroupsFrom(pattern, i + 1)

countGroups(pattern) == countGroupsFrom(pattern, 0)

\* createLexer: groupOffsets, from definition i with the running offset
RECURSIVE groupOffsetsFrom(_, _, _)
groupOffsetsFrom(defs, i, offset) ==
    IF i > Len(defs) THEN <<>>
    ELSE <<offset>>
         \o groupOffsetsFrom(defs, i + 1,
              offset + 1 + countGroups(defs[i].pattern.source))

groupOffsets(defs) == groupOffsetsFrom(defs, 1, 1)

\* The combined pattern `(s1)|(s2)|...` at offset pos: the first
\* alternative from j on that matches there, as [alt, end]; alt is 0 when
\* none does.  Without definitions the source is empty and matches the
\* empty string anywhere.
RECURSIVE combinedAt(_, _, _, _)
combinedAt(defs, text, pos, j) ==
    IF j > Len(defs) THEN [alt |-> 0, end |-> NoMatch]
    ELSE LET e == MatchHere(defs[j].pattern.items, 1, text, pos)
         IN  IF e # NoMatch THEN [alt |-> j, end |-> e]
             ELSE combinedAt(defs, text, pos, j + 1)

\* combined.exec(input) from lastIndex: [index, end, alt]
RECURSIVE combinedExec(_, _, _)
combinedExec(defs, text, from) ==
    IF from > Len(text) THEN [index |-> NoMatch, end |-> NoMatch, alt |-> 0]
    ELSE IF defs = <<>> THEN [index |-> from, end |-> from, alt |-> 0]
    ELSE LET r == combinedAt(defs, text, from, 1)
         IN  IF r.alt # 0
             THEN [index |-> from, end |-> r.end, alt |-> r.alt]
             ELSE combinedExec(defs, text, from + 1)

\* An element of the match array: a string, or undefined
Group(val) == [def |-> TRUE, val |-> val]
NoGroup == [def |-> FALSE, val |-> <<>>]

\* The groups of alternative j in the match array: its wrapper group and
\* the groups of its own source, undefined unless j is the alternative
\* that matched
RECURSIVE altGroups(_, _, _, _)
altGroups(defs, j, alt, whole) ==
    IF j > Len(defs) THEN <<>>
    ELSE (IF j = alt
          THEN <<Group(whole)>>
               \o [k \in 1..Len(defs[j].pattern.captures) |->
                     Group(defs[j].pattern.captures[k])]
          ELSE [k \in 1..(1 + Len(defs[j].pattern.captures)) |-> NoGroup])
         \o altGroups(defs, j + 1, alt, whole)

\* The match array: match[0] and the groups of the combined pattern
matchArray(defs, text, m) ==
    LET whole == Slice(text, m.index, m.end)
    IN  <<Group(whole)>> \o altGroups(defs, 1, m.alt, whole)

\* The first i with match[groupOffsets[i]] !== undefined, or 0
RECURSIVE attributed(_, _, _, _)
attributed(defs, offsets, match, i) ==
    IF i > Len(defs) THEN 0
    ELSE IF offsets[i] + 1 <= Len(match) /\ match[offsets[i] + 1].def THEN i
    ELSE attributed(defs, offsets, match, i + 1)

LexToken(type, value, groups, start, end) ==
    [type |-> type, value |-> value, groups |-> groups, start |-> start,
     end |-> end]

ErrorToken(input, start, end) ==
    LexToken("ERROR", Slice(input, start, end), <<>>, start, end)

\* The scan loop of the lexer with combined.lastIndex = li, and the
\* trailing ERROR token
RECURSIVE lexLoop(_, _, _, _)
lexLoop(defs, input, li, lastEnd) ==
    LET m == combinedExec(defs, input, li)
    IN  IF m.index = NoMatch
        THEN IF lastEnd < Len(input)
             THEN <<ErrorToken(input, lastEnd, Len(input))>> ELSE <<>>
        ELSE LET match == matchArray(defs, input, m)
                 i == attributed(defs, groupOffsets(defs), match, 1)
             IN  (IF i # 0 /\ m.index > lastEnd
                  THEN <<ErrorToken(input, lastEnd, m.index)>> ELSE <<>>)
                 \o (IF i # 0 /\ ~defs[i].skip
                     THEN <<LexToken(defs[i].name, match[1].val, match,
                                     m.index, m.end)>>
                     ELSE <<>>)
                 \o lexLoop(defs, input,
                            IF m.end = m.index THEN m.end + 1 ELSE m.end,
                            IF i # 0 THEN m.end ELSE lastEnd)

\* createLexer(defs)(input)
lexer(defs, input) == lexLoop(defs, input, 0, 0)

LexPatterns ==
    { LexRegExp(<<LexAtom("lit", "a", FALSE)>>),
      LexRegExp(<<LexAtom("lit", "b", TRUE)>>),
      LexRegExp(<<LexAtom("group", "a", FALSE), LexAtom("lit", "b", FALSE)>>),
      LexRegExp(<<LexAtom("named", "a", FALSE)>>),
      LexRegExp(<<LexAtom("class", "(", FALSE)>>),
      LexRegExp(<<LexAtom("noncap", "b", FALSE)>>),
      LexRegExp(<<LexAtom("esc", "(", FALSE)>>) }

LexNames == <<"A", "B", "C", "D">>

\* The definition lists: the i-th definition is named LexNames[i]
DefLists ==
    UNION {{[i \in 1..k |-> TokenDef(LexNames[i], ps[i], sk[i])] :
              ps \in [1..k -> LexPatterns], sk \in [1..k -> BOOLEAN]} :
           k \in 0..MaxDefs}

LexTexts == Strings({"a", "b", "("}, MaxLexText)

\* new RegExp of the combined source throws a SyntaxError when two
\* alternatives hold a group of the same name (Duplicate capture group
\* name, as V8 12.4 of node 22 has it)
createLexerThrows(defs) ==
    Cardinality({i \in 1..Len(defs) :
                   \E k \in 0..Len(defs[i].pattern.source) :
                     OccursAt(defs[i].pattern.source,
                              <<"(", "?", "<", "n", ">">>, k)}) > 1

\* createLexer(defs): the lexer, or the error thrown
createLexer(defs) ==
    IF createLexerThrows(defs) THEN [kind |-> "threw", defs |-> defs]
    ELSE [kind |-> "lexer", defs |-> defs]

Lexers == {createLexer(defs) : defs \in DefLists}

\* The lexer just built is run on T.  The scan ends with exec returning
\* null, which leaves combined.lastIndex = 0.
Lex(T) ==
    /\ cmd.kind = "lexer"
    /\ seen = Unseen
    /\ LET out == lexer(cmd.defs, T)
       IN  /\ cin' = T
           /\ cout' = out
           /\ seen' = [calls |-> 1, in |-> T, out |-> out]
    /\ reLastIndex' = 0
    /\ UNCHANGED <<cmd, handed, engineVars>>

----------------------------------------------------------------------------
(* glob.ts: the calls                                                      *)

\* The longest glob pattern, and the longest path it is matched against.
MaxGlob == 4
MaxPath == 3

GlobPatterns == Strings({"/", "a", "*"}, MaxGlob)
Paths == Strings({"/", "a", "b"}, MaxPath)

Globs == {[kind |-> "glob", pattern |-> pattern] : pattern \in GlobPatterns}

\* The result of a call on the glob pattern, placed in cout
GlobResult(op, val) == [op |-> op, val |-> val]

\* globMatch(pattern, path)
GlobMatch(path) ==
    /\ cmd.kind = "glob"
    /\ seen = Unseen
    /\ cin' = path
    /\ cout' = GlobResult("globMatch", globMatch(cmd.pattern, path))
    /\ seen' = [calls |-> 1, in |-> path, out |-> cout']
    /\ UNCHANGED <<cmd, reLastIndex, handed, engineVars>>

\* extractGlobCaptures(pattern, path)
ExtractGlobCaptures(path) ==
    /\ cmd.kind = "glob"
    /\ seen = Unseen
    /\ cin' = path
    /\ cout' = GlobResult("extractGlobCaptures",
                          extractGlobCaptures(cmd.pattern, path))
    /\ seen' = [calls |-> 1, in |-> path, out |-> cout']
    /\ UNCHANGED <<cmd, reLastIndex, handed, engineVars>>

\* globToRegex(pattern).test(path)
GlobToRegex(path) ==
    /\ cmd.kind = "glob"
    /\ seen = Unseen
    /\ cin' = path
    /\ cout' = GlobResult("globToRegex",
                          GlobRegexTest(globToRegex(cmd.pattern), path))
    /\ seen' = [calls |-> 1, in |-> path, out |-> cout']
    /\ UNCHANGED <<cmd, reLastIndex, handed, engineVars>>

----------------------------------------------------------------------------
(* template.ts: the calls                                                  *)

\* The most pieces a template is written from.
MaxPieces == 2

\* What a template is written from: text and placeholders
TemplatePieces ==
    { <<"a">>, PhUuid, PhInput, PhCapture(0), PhCapture(1), PhPath(0),
      PhData \o <<"f", "}">> }

RECURSIVE Flatten(_)
Flatten(ss) == IF ss = <<>> THEN <<>> ELSE Head(ss) \o Flatten(Tail(ss))

Templates ==
    UNION {{Flatten(ps) : ps \in [1..k -> TemplatePieces]} : k \in 0..MaxPieces}

\* The values a context carries: plain text, text that reads as a
\* placeholder, text that reads as a replacement pattern
ContextValues == {<<"b">>, PhInput, <<"$", "&">>}

\* TemplateContext; hasX is FALSE for a field that is undefined
Context(hasCaptures, captures, hasPath, path, hasInput, input, hasData) ==
    [hasCaptures |-> hasCaptures, captures |-> captures, hasPath |-> hasPath,
     path |-> path, hasInput |-> hasInput, input |-> input,
     hasData |-> hasData]

Contexts ==
    {Context(hc, cs, hp, ps, hi, in, hd) :
       hc \in BOOLEAN,
       cs \in {<<>>} \cup {<<v>> : v \in ContextValues},
       hp \in BOOLEAN, ps \in {<<<<"b">>>>},
       hi \in BOOLEAN, in \in {<<"c">>, PhData \o <<"f", "}">>},
       hd \in BOOLEAN}

TemplateCalls ==
    {[kind |-> "template", template |-> t, ctx |-> ctx] :
       t \in Templates, ctx \in Contexts}

\* What successive calls of generateId return
IdStreams == [1..MaxPieces -> Ids]

\* substituteString(template, ctx): generateId is called once, at the
\* ${uuid} pass, and returns ids[1].
SubstituteString(ids) ==
    /\ cmd.kind = "template"
    /\ seen = Unseen
    /\ cin' = ids
    /\ cout' = substituteString(cmd.template, cmd.ctx, ids[1])
    /\ seen' = [calls |-> 1, in |-> ids, out |-> cout']
    /\ UNCHANGED <<cmd, reLastIndex, handed, engineVars>>

----------------------------------------------------------------------------

(* commands.ts: a command applied to its own output                        *)

\* The longest text a command is applied to before it is applied to its
\* own output.
MaxFixText == 4

FixTexts == Strings({"a", "b"}, MaxFixText)

\* cmd(T), the first application
InvokeFirst(T) ==
    /\ seen = Unseen
    /\ Invoke(T)

\* cmd(cmd(T)): the command is applied to what it returned
InvokeOnOutput ==
    /\ seen.calls = 1
    /\ Invoke(cout)

----------------------------------------------------------------------------

(* commands.ts: pipe                                                       *)

\* The most commands given to pipe.
MaxPipe == 2

\* commands.reduce((acc, cmd) => cmd(acc), input) from command i on
RECURSIVE pipeFrom(_, _, _)
pipeFrom(commands, i, acc) ==
    IF i > Len(commands) THEN acc
    ELSE pipeFrom(commands, i + 1, run(commands[i], acc))

\* The calls the reduce makes from command i on: the command and what it is
\* called on
RECURSIVE pipeHandedFrom(_, _, _)
pipeHandedFrom(commands, i, acc) ==
    IF i > Len(commands) THEN <<>>
    ELSE <<[c |-> commands[i], input |-> acc]>>
         \o pipeHandedFrom(commands, i + 1, run(commands[i], acc))

\* The commands applied from the last to the first
RECURSIVE pipeFromRight(_, _, _)
pipeFromRight(commands, i, acc) ==
    IF i < 1 THEN acc
    ELSE pipeFromRight(commands, i - 1, run(commands[i], acc))

pipeRight(commands, input) == pipeFromRight(commands, Len(commands), input)

pipe(commands, input) == pipeFrom(commands, 1, input)

Pipes ==
    {[kind |-> "pipe", commands |-> cs] :
       cs \in UNION {[1..k -> InnerCmds] : k \in 0..MaxPipe}}

\* The command pipe returned is called on T
InvokePipe(T) ==
    /\ cmd.kind = "pipe"
    /\ seen = Unseen
    /\ cin' = T
    /\ cout' = pipe(cmd.commands, T)
    /\ handed' = pipeHandedFrom(cmd.commands, 1, T)
    /\ seen' = [calls |-> 1, in |-> T, out |-> cout']
    /\ UNCHANGED <<cmd, reLastIndex, engineVars>>

----------------------------------------------------------------------------

(* dsl: the fluent builder SRE                                             *)

\* The most steps chained on a builder.
MaxSteps == 2

\* The command addStructural pushes, for x and for y alike: the text
\* between the matches and the matches themselves, copied in order
addStructural(type, pattern, input) ==
    LET matches == findMatches(pattern, input)
    IN  IF Len(matches) = 0 THEN (IF type = "x" THEN input ELSE input)
        ELSE xLoop(input, matches, [op |-> "p", arg |-> <<>>], 1, 0)

\* The command addRange pushes: the selected characters or lines
addRange(type, start, end, input) ==
    IF type = "n"
    THEN LET len == Len(input)
         IN  Slice(input, startIdxOf(start, len), endIdxOf(end, len))
    ELSE LET lines == Split(input, "\n")
             len == Len(lines)
         IN  Join(Slice(lines, startIdxOf(start, len), endIdxOf(end, len)),
                  "\n")

\* One command of this.commands called on input
step(c, input) ==
    CASE c.op \in {"x", "y"} -> addStructural(c.op, c.pattern, input)
      [] c.op \in {"n", "l"} -> addRange(c.op, c.start, c.end, input)
      [] c.op = "g" ->
           IF testOn(c.pattern, input, 0).matched THEN input ELSE <<>>
      [] c.op = "v" ->
           IF ~testOn(c.pattern, input, 0).matched THEN input ELSE <<>>
      [] c.op = "apply" -> run(c.inner, input)
      [] OTHER -> s(c.pattern, c.arg, input)

\* value(): this.commands.reduce((acc, cmd) => cmd(acc), this.input)
RECURSIVE valueFrom(_, _, _)
valueFrom(commands, i, acc) ==
    IF i > Len(commands) THEN acc
    ELSE valueFrom(commands, i + 1, step(commands[i], acc))

value(b) == valueFrom(b.commands, 1, b.input)

SrePatterns == {<<"a">>, <<"b">>, <<"a", "*">>}
SreStarts == {0 - 1, 0, 1}
SreEnds == {EndAbsent, EndAt(1)}
SreTexts == Strings({"a", "b", "\n"}, MaxText)

\* sre(input)
sre(input) == [kind |-> "sre", input |-> input, commands |-> <<>>]

\* .x(pattern) with the pattern given as a string: this.commands.push(...)
SreX(src) ==
    /\ cmd.kind = "sre"
    /\ seen = Unseen
    /\ Len(cmd.commands) < MaxSteps
    /\ cmd' = [cmd EXCEPT !.commands = Append(@, [op |-> "x", pattern |-> RegExp(src, TRUE)])]
    /\ UNCHANGED <<reLastIndex, cin, cout, seen, handed, engineVars>>

\* .n(start, end)
SreN(start, end) ==
    /\ cmd.kind = "sre"
    /\ seen = Unseen
    /\ Len(cmd.commands) < MaxSteps
    /\ cmd' = [cmd EXCEPT !.commands = Append(@, [op |-> "n", start |-> start, end |-> end])]
    /\ UNCHANGED <<reLastIndex, cin, cout, seen, handed, engineVars>>

\* .l(start, end)
SreL(start, end) ==
    /\ cmd.kind = "sre"
    /\ seen = Unseen
    /\ Len(cmd.commands) < MaxSteps
    /\ cmd' = [cmd EXCEPT !.commands = Append(@, [op |-> "l", start |-> start, end |-> end])]
    /\ UNCHANGED <<reLastIndex, cin, cout, seen, handed, engineVars>>

\* .s(pattern, replacement) with the pattern given as a string
SreS(src, replacement) ==
    /\ cmd.kind = "sre"
    /\ seen = Unseen
    /\ Len(cmd.commands) < MaxSteps
    /\ cmd' = [cmd EXCEPT !.commands =
                  Append(@, [op |-> "s", pattern |-> RegExp(src, TRUE),
                             arg |-> replacement])]
    /\ UNCHANGED <<reLastIndex, cin, cout, seen, handed, engineVars>>

\* .y(pattern) with the pattern given as a string
SreY(src) ==
    /\ cmd.kind = "sre"
    /\ seen = Unseen
    /\ Len(cmd.commands) < MaxSteps
    /\ cmd' = [cmd EXCEPT !.commands =
                  Append(@, [op |-> "y", pattern |-> RegExp(src, TRUE)])]
    /\ UNCHANGED <<reLastIndex, cin, cout, seen, handed, engineVars>>

\* .g(pattern) with the pattern given as a string: new RegExp(pattern),
\* whose lastIndex stays 0
SreG(src) ==
    /\ cmd.kind = "sre"
    /\ seen = Unseen
    /\ Len(cmd.commands) < MaxSteps
    /\ cmd' = [cmd EXCEPT !.commands =
                  Append(@, [op |-> "g", pattern |-> RegExp(src, FALSE)])]
    /\ UNCHANGED <<reLastIndex, cin, cout, seen, handed, engineVars>>

\* .v(pattern) with the pattern given as a string
SreV(src) ==
    /\ cmd.kind = "sre"
    /\ seen = Unseen
    /\ Len(cmd.commands) < MaxSteps
    /\ cmd' = [cmd EXCEPT !.commands =
                  Append(@, [op |-> "v", pattern |-> RegExp(src, FALSE)])]
    /\ UNCHANGED <<reLastIndex, cin, cout, seen, handed, engineVars>>

\* .c(replacement)
SreC(replacement) ==
    /\ cmd.kind = "sre"
    /\ seen = Unseen
    /\ Len(cmd.commands) < MaxSteps
    /\ cmd' = [cmd EXCEPT !.commands =
                  Append(@, [op |-> "apply",
                             inner |-> [op |-> "c", arg |-> replacement]])]
    /\ UNCHANGED <<reLastIndex, cin, cout, seen, handed, engineVars>>

\* .d()
SreD ==
    /\ cmd.kind = "sre"
    /\ seen = Unseen
    /\ Len(cmd.commands) < MaxSteps
    /\ cmd' = [cmd EXCEPT !.commands =
                  Append(@, [op |-> "apply",
                             inner |-> [op |-> "d", arg |-> <<>>]])]
    /\ UNCHANGED <<reLastIndex, cin, cout, seen, handed, engineVars>>

\* .p()
SreP ==
    /\ cmd.kind = "sre"
    /\ seen = Unseen
    /\ Len(cmd.commands) < MaxSteps
    /\ cmd' = [cmd EXCEPT !.commands =
                  Append(@, [op |-> "apply",
                             inner |-> [op |-> "p", arg |-> <<>>]])]
    /\ UNCHANGED <<reLastIndex, cin, cout, seen, handed, engineVars>>

\* .apply(cmd)
SreApply(c) ==
    /\ cmd.kind = "sre"
    /\ seen = Unseen
    /\ Len(cmd.commands) < MaxSteps
    /\ cmd' = [cmd EXCEPT !.commands =
                  Append(@, [op |-> "apply", inner |-> c])]
    /\ UNCHANGED <<reLastIndex, cin, cout, seen, handed, engineVars>>

\* .value()
SreValue ==
    /\ cmd.kind = "sre"
    /\ seen = Unseen
    /\ cin' = cmd.input
    /\ cout' = value(cmd)
    /\ seen' = [calls |-> 1, in |-> cmd.input, out |-> cout']
    /\ UNCHANGED <<cmd, reLastIndex, handed, engineVars>>

----------------------------------------------------------------------------

(* PatternEngine.apply on keys and types that hold a colon                 *)

\* Rules whose reactions have a colon in the key or in the type
VisitDefs ==
    { Def("A", GlobAll, <<>>, <<>>, <<>>, <<"t">>, <<"/", "x", ":", "t">>,
          <<>>, "A"),
      Def("B", GlobAll, <<>>, <<>>, <<>>, <<"t", ":", "t">>, <<"/", "x">>,
          <<>>, "A"),
      Def("A", GlobX, <<>>, <<>>, <<>>, <<"u">>, <<"/", "y">>, <<>>, "B"),
      Def("B", GlobAll, <<>>, <<"a">>, <<>>, <<"t">>, <<"/", "x">>,
          PhInput, "B") }

VisitScrolls ==
    { Scroll(<<"/", "x">>, <<"t", ":", "t">>, <<"a">>),
      Scroll(<<"/", "x", ":", "t">>, <<"t">>, <<"a">>),
      Scroll(<<"/", "x">>, <<"t">>, <<"a">>) }

----------------------------------------------------------------------------

(* Specifications                                                          *)

\* The pattern engine, driven by its callers
Init ==
    /\ InitEngine
    /\ cmd = NoCommand
    /\ CmdRest

Next ==
    \/ \E def \in PatternDefs : Add(def)
    \/ \E name \in Names : Remove(name)
    \/ Clear
    \/ \E name \in Names : Get(name)
    \/ List
    \/ Size
    \/ \E name \in Names, scroll \in Scrolls, idPath \in Ids, idData \in Ids :
         ApplyOne(name, scroll, idPath, idData)
    \/ \E scroll \in Scrolls : WouldMatch(scroll)
    \/ \E scroll \in Scrolls : ApplyStart(scroll)
    \/ ApplySkip
    \/ \E idsP \in IdChoices, idsD \in IdChoices : ApplyEval(idsP, idsD)
    \/ ApplyReturn

Spec == Init /\ [][Next]_vars

\* A command of any kind, built once and invoked any number of times
InitCmd ==
    /\ InitEngine
    /\ cmd \in Commands(Kinds)
    /\ CmdRest

NextCmd == \E T \in Texts : Invoke(T)

SpecCmd == InitCmd /\ [][NextCmd]_vars

\* A command built by x or y
InitXY ==
    /\ InitEngine
    /\ cmd \in Commands({"x", "y"})
    /\ CmdRest

SpecXY == InitXY /\ [][NextCmd]_vars

----------------------------------------------------------------------------
\* A command built by n or l
InitRange ==
    /\ InitEngine
    /\ cmd \in RangeCommands
    /\ CmdRest

NextRange == \E T \in RangeTexts : InvokeRange(T)

SpecRange == InitRange /\ [][NextRange]_vars

----------------------------------------------------------------------------

\* A lexer built by createLexer
InitLex ==
    /\ InitEngine
    /\ cmd \in Lexers
    /\ CmdRest

NextLex == \E T \in LexTexts : Lex(T)

SpecLex == InitLex /\ [][NextLex]_vars

----------------------------------------------------------------------------

\* A glob pattern, matched, extracted from or converted
InitGlob ==
    /\ InitEngine
    /\ cmd \in Globs
    /\ CmdRest

NextGlob ==
    \/ \E path \in Paths : GlobMatch(path)
    \/ \E path \in Paths : ExtractGlobCaptures(path)
    \/ \E path \in Paths : GlobToRegex(path)

SpecGlob == InitGlob /\ [][NextGlob]_vars

----------------------------------------------------------------------------
\* A template and a context, substituted
InitTemplate ==
    /\ InitEngine
    /\ cmd \in TemplateCalls
    /\ CmdRest

NextTemplate == \E ids \in IdStreams : SubstituteString(ids)

SpecTemplate == InitTemplate /\ [][NextTemplate]_vars

----------------------------------------------------------------------------

\* A command built by x, applied to a text and then to its own output
InitFix ==
    /\ InitEngine
    /\ cmd \in Commands({"x"})
    /\ CmdRest

NextFix ==
    \/ \E T \in FixTexts : InvokeFirst(T)
    \/ InvokeOnOutput

SpecFix == InitFix /\ [][NextFix]_vars

----------------------------------------------------------------------------

\* pipe(...commands), called on a text
InitPipe ==
    /\ InitEngine
    /\ cmd \in Pipes
    /\ CmdRest

NextPipe == \E T \in Texts : InvokePipe(T)

SpecPipe == InitPipe /\ [][NextPipe]_vars

----------------------------------------------------------------------------

\* A builder, steps chained on it, and value()
InitSre ==
    /\ InitEngine
    /\ cmd \in {sre(T) : T \in SreTexts}
    /\ CmdRest

NextSre ==
    \/ \E src \in SrePatterns : SreX(src)
    \/ \E start \in SreStarts, end \in SreEnds : SreN(start, end)
    \/ \E start \in SreStarts, end \in SreEnds : SreL(start, end)
    \/ \E src \in SrePatterns : SreS(src, <<"z">>)
    \/ \E src \in SrePatterns : SreY(src)
    \/ \E src \in SrePatterns : SreG(src)
    \/ \E src \in SrePatterns : SreV(src)
    \/ SreC(<<"z">>)
    \/ SreD
    \/ SreP
    \/ SreApply([op |-> "wrap", arg |-> <<>>])
    \/ SreValue

SpecSre == InitSre /\ [][NextSre]_vars

----------------------------------------------------------------------------

\* The engine with rules and documents whose keys and types hold a colon
NextVisit ==
    \/ \E def \in VisitDefs : Add(def)
    \/ \E scroll \in VisitScrolls : ApplyStart(scroll)
    \/ ApplySkip
    \/ \E idsP \in IdChoices, idsD \in IdChoices : ApplyEval(idsP, idsD)
    \/ ApplyReturn

SpecVisit == Init /\ [][NextVisit]_vars

----------------------------------------------------------------------------

(* Properties of the pattern engine                                        *)

\* A rule passes on a document: its watch glob matches the key, its guard
\* (if any) matches the payload and its veto (if any) does not.
Passes(pattern, scroll) ==
    /\ globMatch(pattern.watch, scroll.key)
    /\ pattern.g.def => Test(pattern.g, scroll.data)
    /\ pattern.v.def => ~Test(pattern.v, scroll.data)

\* The reactions of a rule to a document, over the identifiers generated
ReactionsOf(pattern, scroll) ==
    {buildReaction(pattern, scroll, idPath, idData) : idPath, idData \in Ids}

Returned == last.op = "apply" /\ ret.kind = "scrolls"

\* C1: apply terminates for every registry and every input document: the
\* queue drains after finitely many dequeue steps, also when rules cascade
\* to themselves or to each other.  In the model: no call is still running
\* on documents whose keys or payloads have outgrown MaxStr.
C1_ApplyTerminates == apPc # "overrun"

\* C2: applyPattern(rule, doc) returns a reaction exactly when the rule
\* passes on doc, and null otherwise; an extract pattern that does not
\* match does not suppress the reaction.
C2_ApplyPatternGate ==
    (last.op = "applyOne" /\ MapHas(patterns, last.name)) =>
        LET pattern == patterns[MapIndex(patterns, last.name)].value
        IN  /\ ~ret.val.null <=> Passes(pattern, last.scroll)
            /\ ~ret.val.null =>
                 /\ ret.val \in ReactionsOf(pattern, last.scroll)
                 /\ (pattern.x.def /\ ~Test(pattern.x, last.scroll.data)) =>
                      templateContext(pattern, last.scroll).captures = <<>>

\* applyOne has returned a reaction of a rule whose extract pattern does
\* not match the payload
C2_Witness ==
    /\ last.op = "applyOne"
    /\ MapHas(patterns, last.name)
    /\ patterns[MapIndex(patterns, last.name)].value.x.def
    /\ ~Test(patterns[MapIndex(patterns, last.name)].value.x,
             last.scroll.data)
    /\ ~ret.val.null

\* The registered rules that pass on the document, in registration order
RECURSIVE PassingRules(_, _, _)
PassingRules(m, scroll, i) ==
    IF i > Len(m) THEN <<>>
    ELSE (IF Passes(m[i].value, scroll) THEN <<m[i].value>> ELSE <<>>)
         \o PassingRules(m, scroll, i + 1)

NoCascade == \A i \in 1..Len(patterns) : patterns[i].value.then = ""

\* C3: when no registered rule declares a cascade target, apply(doc)
\* returns exactly one reaction per registered rule that passes on doc, in
\* registration order, with type = rule.emit, produced_by = rule.name,
\* version = 1, key = the substituted emit_path and data = the substituted
\* template.
C3_ApplyNoCascade ==
    (Returned /\ NoCascade) =>
        LET pass == PassingRules(patterns, last.scroll, 1)
        IN  /\ Len(ret.val) = Len(pass)
            /\ \A i \in 1..Len(pass) :
                 LET ctx == templateContext(pass[i], last.scroll)
                 IN  /\ ret.val[i].type = pass[i].emit
                     /\ ret.val[i].produced_by = pass[i].name
                     /\ ret.val[i].version = 1
                     /\ \E id \in Ids : ret.val[i].key =
                          substituteString(pass[i].emit_path, ctx, id)
                     /\ \E id \in Ids : ret.val[i].data =
                          substituteString(pass[i].template, ctx, id)

\* apply has returned the reactions of two rules without cascade
C3_Witness == Returned /\ NoCascade /\ Len(ret.val) = 2

\* C4: if rule A declares then: 'B', B is registered, A fires on the input
\* document D producing R and B passes on R, then apply(D) returns both R
\* and B's reaction to R, R first; and apply(D) does not loop.
C4_Cascade ==
    /\ Returned =>
         \A a, b \in 1..Len(patterns) :
           LET A == patterns[a].value
               B == patterns[b].value
           IN  (A.then = patterns[b].key /\ Passes(A, last.scroll)) =>
                 /\ \E i \in 1..Len(ret.val) :
                      ret.val[i] \in ReactionsOf(A, last.scroll)
                 /\ \A i \in 1..Len(ret.val) :
                      (/\ ret.val[i] \in ReactionsOf(A, last.scroll)
                       /\ Passes(B, ret.val[i])) =>
                         \E j \in (i + 1)..Len(ret.val) :
                           ret.val[j] \in ReactionsOf(B, ret.val[i])
    /\ apPc # "overrun"

\* The names of the rules that produced the reactions
ProducedBy(rs) == [i \in 1..Len(rs) |-> rs[i].produced_by]

\* C5: wouldMatch(doc) returns, in registration order, exactly the names n
\* for which applyOne(n, doc) is non-null, and these are the produced_by
\* names of the reactions apply(doc) generates for the input document
\* itself.
C5_WouldMatchDryRun ==
    /\ last.op = "wouldMatch" =>
         ret.val = SelectSeq(MapKeys(patterns),
                     LAMBDA nm : \A idPath, idData \in Ids :
                       ~applyOne(patterns, nm, last.scroll, idPath,
                                 idData).null)
    /\ (apPc = "running" /\ Cardinality(visited) = 1) =>
         ProducedBy(reactions) = wouldMatch(patterns, apDoc)

\* apply has evaluated the input document alone, against two rules of
\* which one fired
C5_Witness ==
    /\ apPc = "running"
    /\ Cardinality(visited) = 1
    /\ Len(patterns) = 2
    /\ Len(reactions) = 1

Listed(name) == \E i \in 1..Len(patterns) : MapKeys(patterns)[i] = name

\* What holds of the registry in every state
RegistryState ==
    LET names == MapKeys(patterns)
    IN  /\ \A i, j \in 1..Len(names) : i # j => names[i] # names[j]
        /\ \A nm \in Names : Listed(nm) <=> stamp[nm] > 0
        /\ \A i, j \in 1..Len(names) :
             i < j => stamp[names[i]] < stamp[names[j]]
        /\ last.op = "list" => ret.val = names
        /\ last.op = "size" => ret.val = Len(names)
        /\ last.op = "get" => (ret.kind = "pattern" <=> Listed(last.name))
        /\ (last.op = "get" /\ Listed(last.name)) =>
             ret.val = patterns[MapIndex(patterns, last.name)].value
        /\ (last.op = "add" /\ ret.kind = "compiled") =>
             /\ Listed(last.name)
             /\ patterns[MapIndex(patterns, last.name)].value = ret.val
        /\ last.op = "clear" => Len(names) = 0
        /\ last.op = "remove" => ~Listed(last.name)

\* What holds of every remove: it returns true exactly when the name was
\* registered, and leaves the other names in their order
RegistryStep ==
    last'.op = "remove" =>
        /\ ret'.val = Listed(last'.name)
        /\ MapKeys(patterns') =
             SelectSeq(MapKeys(patterns), LAMBDA nm : nm # last'.name)

\* C6: after any sequence of add/remove/clear, list() holds each registered
\* name once, ordered by when the name was first added since it was last
\* removed or cleared (a re-add replaces the rule in place); size is the
\* length of list(); get(name) is defined exactly for listed names;
\* remove(name) returns true exactly when name was registered; clear()
\* leaves size 0.
C6_Registry == []RegistryState /\ [][RegistryStep]_vars

\* B has been re-added while registered before A, and kept its place
C6_Witness ==
    /\ MapKeys(patterns) = <<"B", "A">>
    /\ last.op = "add"
    /\ last.name = "B"
    /\ ret.kind = "compiled"

\* C7: apply, applyOne, wouldMatch, get and list leave the registry as it
\* was: the same names, in the same order, with the same compiled rules.
C7_ReadsLeaveRegistry ==
    [][last'.op \in {"apply", "applyOne", "wouldMatch", "get", "list"}
         => patterns' = patterns]_vars

\* apply has returned from a cascade over two registered rules
C7_Witness == Returned /\ Len(patterns) = 2 /\ Len(ret.val) >= 3

InvalidSource(def) ==
    \E src \in {def.x, def.g, def.v} : src # <<>> /\ ~SourceValid(src)

\* What holds in every state: add threw exactly for a source that is no
\* regular expression, and every registered rule holds compiled patterns
SourcesCompiled ==
    /\ last.op = "add" => (ret.kind = "threw" <=> InvalidSource(last.def))
    /\ \A i \in 1..Len(patterns) :
         /\ ~patterns[i].value.x.err
         /\ ~patterns[i].value.g.err
         /\ ~patterns[i].value.v.err

\* C8: a rule whose x, g or v source is not a valid regular expression is
\* rejected by add(def): the call fails, the registry is left as it was
\* (an existing rule of the same name is kept), and no registered rule
\* holds a pattern that a later apply or wouldMatch could fail on.
C8_InvalidSourceRejected ==
    /\ []SourcesCompiled
    /\ [][(last'.op = "add" /\ InvalidSource(last'.def))
            => patterns' = patterns]_vars

\* add has thrown on a definition whose name is registered
C8_Witness ==
    /\ last.op = "add"
    /\ ret.kind = "threw"
    /\ Listed(last.name)

----------------------------------------------------------------------------
(* Properties of the commands                                              *)

Wrap == [op |-> "wrap", arg |-> <<>>]

\* The text without the brackets the wrapping command has put in
Strip(out) == SelectSeq(out, LAMBDA ch : ch \notin {"[", "]"})

\* For each character of the text, whether it stands inside brackets
RECURSIVE Mask(_, _, _)
Mask(out, i, inside) ==
    IF i > Len(out) THEN <<>>
    ELSE IF out[i] = "[" THEN Mask(out, i + 1, TRUE)
    ELSE IF out[i] = "]" THEN Mask(out, i + 1, FALSE)
    ELSE <<inside>> \o Mask(out, i + 1, inside)

\* C9: x and y partition the text: the match spans and the non-empty
\* non-match spans, in their order, concatenate to the text, so that
\* x(P, p())(T) = T and y(P, p())(T) = T, and every character lies in
\* exactly one span: in a match span (handed to x's command) or in a
\* non-match span (handed to y's command).
C9_XYPartition ==
    (seen.calls > 0 /\ cmd.kind \in {"x", "y"}) =>
        /\ cmd.inner.op = "p" => cout = cin
        /\ cmd.inner.op = "wrap" =>
             LET dual == IF cmd.kind = "x" THEN y(cmd.pattern, Wrap, cin)
                         ELSE x(cmd.pattern, Wrap, cin)
             IN  /\ Strip(cout) = cin
                 /\ Len(Mask(cout, 1, FALSE)) = Len(cin)
                 /\ Len(Mask(dual, 1, FALSE)) = Len(cin)
                 /\ \A k \in 1..Len(cin) :
                      Mask(cout, 1, FALSE)[k] # Mask(dual, 1, FALSE)[k]

\* x has wrapped a match, an empty match touching it, and an empty match at
\* the end of the text
C9_Witness ==
    /\ cmd.kind = "x"
    /\ cmd.inner.op = "wrap"
    /\ cin = <<"a", "b">>
    /\ cout = <<"[", "a", "]", "[", "]", "b", "[", "]">>

\* C10: a command built by x, y, g, v, xFirst or ifMatch returns the same
\* output every time it is invoked on the same input, whatever flags its
\* pattern carries and whatever it was invoked on before.
C10_Reinvocable == (seen.calls > 0 /\ cin = seen.in) => cout = seen.out

\* The text with the span of the first match of the pattern replaced by the
\* command's output for the matched text
FirstMatchReplaced(pattern, c, text) ==
    LET m == Search(pattern, text, 0)
    IN  IF m.index = NoMatch THEN text
        ELSE Slice(text, 0, m.index) \o run(c, Slice(text, m.index, m.end))
             \o Slice(text, m.end, Len(text))

\* C11: xFirst(P, cmd)(T) is T with the span of the first match of P
\* replaced by cmd(matchText), the text before and after the span kept; it
\* is T when P has no match.
C11_XFirstKeepsRest ==
    (seen.calls > 0 /\ cmd.kind = "xFirst") =>
        cout = FirstMatchReplaced(cmd.pattern, cmd.inner, cin)

\* C12: n(start, end, cmd)(T) is prefix + cmd(selected) + suffix for
\* consecutive pieces prefix, selected, suffix of T that concatenate to T,
\* for every start and end; in particular n(start, end, p())(T) = T, also
\* for start past end and for indices out of range.
C12_NKeepsOutside ==
    (seen.calls > 0 /\ cmd.kind = "n") =>
        /\ \E i, j \in 0..Len(cin) :
             /\ i <= j
             /\ cout = Slice(cin, 0, i) \o run(cmd.inner, Slice(cin, i, j))
                       \o Slice(cin, j, Len(cin))
        /\ cmd.inner.op = "p" => cout = cin

\* C13: l(start, end, cmd)(T) leaves the lines outside the selection as
\* they are and where they are; lines are added, removed or changed only
\* by cmd rewriting the selected ones; in particular l(start, end, p())(T)
\* = T, also for an empty selection.
C13_LKeepsOutside ==
    (seen.calls > 0 /\ cmd.kind = "l") =>
        LET lines == Split(cin, "\n")
        IN  /\ \E i, j \in 0..Len(lines) :
                 /\ i <= j
                 /\ Split(cout, "\n") =
                      Slice(lines, 0, i)
                      \o (IF i = j THEN <<>>
                          ELSE Split(run(cmd.inner,
                                         Join(Slice(lines, i, j), "\n")),
                                     "\n"))
                      \o Slice(lines, j, Len(lines))
            /\ cmd.inner.op = "p" => cout = cin

\* What the range command selects from: characters for n, lines for l
RangeLength(k, text) ==
    IF k.kind = "n" THEN Len(text) ELSE Len(Split(text, "\n"))

\* C14: the indices of n and l.  A negative start or end -k with 1 <= k <=
\* length selects what length - k selects; every index is clamped into
\* 0..length; an absent end is length.
C14_RangeIndices ==
    (seen.calls > 0 /\ cmd.kind \in {"n", "l"}) =>
        LET len == RangeLength(cmd, cin)
            startIdx == startIdxOf(cmd.start, len)
            endIdx == endIdxOf(cmd.end, len)
        IN  /\ startIdx \in 0..len
            /\ endIdx \in 0..len
            /\ cmd.start \in 0..len => startIdx = cmd.start
            /\ cmd.start > len => startIdx = len
            /\ cmd.start < 0 - len => startIdx = 0
            /\ ~cmd.end.def => endIdx = len
            /\ cmd.end.def =>
                 /\ cmd.end.val \in 0..len => endIdx = cmd.end.val
                 /\ cmd.end.val > len => endIdx = len
                 /\ cmd.end.val < 0 - len => endIdx = 0
            /\ \A k \in 1..len :
                 /\ cmd.start = 0 - k =>
                      /\ startIdx = len - k
                      /\ cout = invokeRange([cmd EXCEPT !.start = len - k],
                                            cin)
                 /\ (cmd.end.def /\ cmd.end.val = 0 - k) =>
                      /\ endIdx = len - k
                      /\ cout = invokeRange(
                                  [cmd EXCEPT !.end = EndAt(len - k)], cin)

\* n(-1, undefined, str => '[' + str + ']') has wrapped the last character
C14_Witness ==
    /\ cmd.kind = "n"
    /\ cmd.start = 0 - 1
    /\ ~cmd.end.def
    /\ cmd.inner.op = "wrap"
    /\ cin = <<"a", "b">>
    /\ cout = <<"a", "[", "b", "]">>

\* The scan position findMatches holds after the match m
ScanPos(m) == IF m.end = m.start THEN m.end + 1 ELSE m.end

\* C29: findMatches moves forward on every turn: the scan position grows
\* with each match, by one past the start of a zero-length match, so there
\* are at most length + 1 matches; the matches are in ascending order of
\* start, each starts at or after the end of the one before, each is the
\* leftmost match from the scan position the one before left (the first
\* from 0) and no match follows the last; groups[0] is the match text.
C29_FindMatchesProgress ==
    (seen.calls > 0 /\ cmd.kind \in {"x", "y"}) =>
        LET global == RegExp(cmd.pattern.source, TRUE)
            ms == findMatches(cmd.pattern, cin)
            From(i) == IF i = 0 THEN 0 ELSE ScanPos(ms[i])
        IN  /\ Len(ms) <= Len(cin) + 1
            /\ \A i \in 1..Len(ms) :
                 /\ ms[i].start <= ms[i].end
                 /\ ms[i].text = Slice(cin, ms[i].start, ms[i].end)
                 /\ ms[i].groups[1] = ms[i].text
                 /\ From(i) > From(i - 1)
                 /\ ms[i].start = RegExpExec(global, cin, From(i - 1)).m.index
            /\ \A i \in 1..(Len(ms) - 1) :
                 /\ ms[i].start < ms[i + 1].start
                 /\ ms[i].end <= ms[i + 1].start
            /\ RegExpExec(global, cin, From(Len(ms))).m.index = NoMatch

\* x ran on "ba" with a pattern that matches the empty string: an empty
\* match, "a", and an empty match at the end, length + 1 matches in all
C29_Witness ==
    /\ seen.calls > 0
    /\ cmd.kind = "x"
    /\ cin = <<"b", "a">>
    /\ handed = << <<>>, <<"a">>, <<>> >>
    /\ Len(findMatches(cmd.pattern, cin)) = Len(cin) + 1

----------------------------------------------------------------------------
(* Properties of the lexer                                                 *)

\* The matches of the combined pattern over the text, scanning from li, as
\* [index, end, alt], alt being the alternative that matched
RECURSIVE LexMatches(_, _, _)
LexMatches(defs, text, li) ==
    LET m == combinedExec(defs, text, li)
    IN  IF m.index = NoMatch THEN <<>>
        ELSE <<m>> \o LexMatches(defs, text,
                        IF m.end = m.index THEN m.end + 1 ELSE m.end)

\* The offsets consumed by the matches of the definitions that satisfy Q
ConsumedBy(defs, text, Q(_)) ==
    LET ms == LexMatches(defs, text, 0)
    IN  {k \in 0..(Len(text) - 1) :
           \E i \in 1..Len(ms) :
             /\ ms[i].alt # 0
             /\ Q(defs[ms[i].alt])
             /\ ms[i].index <= k
             /\ k < ms[i].end}

IsSkip(def) == def.skip
AnyDef(def) == TRUE

Lexed == seen.calls > 0 /\ cmd.kind = "lexer"

\* C15: the tokens are in ascending order and do not overlap; the tokens,
\* ERROR tokens included, and the spans consumed by skip definitions cover
\* every offset of the input exactly once; each token's value is the input
\* between its start and end; the ERROR tokens cover exactly the offsets no
\* definition's match consumed.
C15_LexerCoverage ==
    Lexed =>
        LET tokens == cout
            Within(k, t) == t.start <= k /\ k < t.end
        IN  /\ \A i \in 1..Len(tokens) : tokens[i].start <= tokens[i].end
            /\ \A i, j \in 1..Len(tokens) :
                 i < j => tokens[i].end <= tokens[j].start
            /\ \A i \in 1..Len(tokens) :
                 tokens[i].value = Slice(cin, tokens[i].start, tokens[i].end)
            /\ \A k \in 0..(Len(cin) - 1) :
                 /\ Cardinality({i \in 1..Len(tokens) : Within(k, tokens[i])})
                    + (IF k \in ConsumedBy(cmd.defs, cin, IsSkip)
                       THEN 1 ELSE 0) = 1
                 /\ (\E i \in 1..Len(tokens) :
                       tokens[i].type = "ERROR" /\ Within(k, tokens[i]))
                    <=> k \notin ConsumedBy(cmd.defs, cin, AnyDef)

\* The capture groups of the definition's own pattern
OwnGroups(def) ==
    [k \in 1..Len(def.pattern.captures) |-> Group(def.pattern.captures[k])]

\* C16: every token that is not an ERROR token carries the name of the
\* sub-pattern that matched, the whole matched text, and the capture groups
\* of that sub-pattern only (after the whole match and its wrapper group at
\* most), none of the slots of the other sub-patterns.
C16_TokenOwnGroups ==
    Lexed =>
        LET ms == LexMatches(cmd.defs, cin, 0)
        IN  \A i \in 1..Len(cout) :
              cout[i].type # "ERROR" =>
                \E j \in 1..Len(ms) :
                  LET def == cmd.defs[ms[j].alt]
                      whole == Group(Slice(cin, ms[j].index, ms[j].end))
                  IN  /\ ms[j].alt # 0
                      /\ ms[j].index = cout[i].start
                      /\ ms[j].end = cout[i].end
                      /\ cout[i].type = def.name
                      /\ cout[i].value = whole.val
                      /\ cout[i].groups \in
                           { OwnGroups(def), <<whole>> \o OwnGroups(def),
                             <<whole, whole>> \o OwnGroups(def) }

\* The index of the wrapper group of definition i in the combined pattern:
\* 1 + the sum over j < i of (the capture groups of sub-pattern j, plus 1)
RECURSIVE WrapperIndex(_, _)
WrapperIndex(defs, i) ==
    IF i = 1 THEN 1
    ELSE WrapperIndex(defs, i - 1) + Len(defs[i - 1].pattern.captures) + 1

\* C28: the offset createLexer computes for definition i is the index of
\* its wrapper group in the combined pattern, whatever the sources hold, so
\* that every match of the combined pattern is attributed to the definition
\* whose alternative matched.
C28_OffsetsAreWrapperIndices ==
    Lexed =>
        /\ \A i \in 1..Len(cmd.defs) :
             groupOffsets(cmd.defs)[i] = WrapperIndex(cmd.defs, i)
        /\ LET ms == LexMatches(cmd.defs, cin, 0)
           IN  \A j \in 1..Len(ms) :
                 ms[j].alt # 0 =>
                   attributed(cmd.defs, groupOffsets(cmd.defs),
                              matchArray(cmd.defs, cin, ms[j]), 1) = ms[j].alt

----------------------------------------------------------------------------
(* Properties of the glob matcher                                          *)

\* An alignment of the path's segments with the pattern's: cut[i] path
\* segments are consumed by the first i pattern segments.  A literal takes
\* the one segment equal to it, * takes one segment, ** takes any number.
Alignments(glob, path) ==
    {cut \in [0..Len(glob) -> 0..Len(path)] :
       /\ cut[0] = 0
       /\ cut[Len(glob)] = Len(path)
       /\ \A i \in 1..Len(glob) :
            CASE glob[i].type = "double" -> cut[i] >= cut[i - 1]
              [] glob[i].type = "single" -> cut[i] = cut[i - 1] + 1
              [] OTHER -> /\ cut[i] = cut[i - 1] + 1
                          /\ path[cut[i]] = glob[i].value}

\* The text with every slash written twice
RECURSIVE DoubleSlashes(_)
DoubleSlashes(str) ==
    IF str = <<>> THEN <<>>
    ELSE (IF Head(str) = "/" THEN <<"/", "/">> ELSE <<Head(str)>>)
         \o DoubleSlashes(Tail(str))

Globbed(op) == seen.calls > 0 /\ cmd.kind = "glob" /\ cout.op = op

\* C17: globMatch(pattern, path) is true exactly when the segments of the
\* path can be aligned with the segments of the pattern, all of both
\* consumed; leading, trailing and duplicate slashes in either argument do
\* not change the result.
C17_GlobMatchAligns ==
    Globbed("globMatch") =>
        /\ cout.val <=> Alignments(parseGlobSegments(cmd.pattern),
                                   parsePath(cin)) # {}
        /\ cout.val <=> globMatch(<<"/">> \o cmd.pattern \o <<"/">>, cin)
        /\ cout.val <=> globMatch(cmd.pattern, <<"/">> \o cin \o <<"/">>)
        /\ cout.val <=> globMatch(DoubleSlashes(cmd.pattern),
                                  DoubleSlashes(cin))

\* globMatch('a/**', '/a') is true: ** has consumed no segment
C17_Witness ==
    /\ Globbed("globMatch")
    /\ cmd.pattern = <<"a", "/", "*", "*">>
    /\ cin = <<"/", "a">>
    /\ cout.val

\* What an alignment captures: the segments under each * and **, in the
\* order of the pattern's segments
RECURSIVE AlignedCaptures(_, _, _, _)
AlignedCaptures(glob, path, cut, i) ==
    IF i > Len(glob) THEN <<>>
    ELSE (IF glob[i].type = "literal" THEN <<>>
          ELSE Slice(path, cut[i - 1], cut[i]))
         \o AlignedCaptures(glob, path, cut, i + 1)

\* C18: when the path matches, extractGlobCaptures returns, in the order of
\* the pattern's segments, the segment aligned with each * and the run of
\* segments aligned with each **, and nothing else.
C18_CapturesInSegmentOrder ==
    (Globbed("extractGlobCaptures") /\ ~cout.val.null) =>
        LET glob == parseGlobSegments(cmd.pattern)
            path == parsePath(cin)
        IN  \E cut \in Alignments(glob, path) :
              cout.val.captures = AlignedCaptures(glob, path, cut, 1)

\* C19: extractGlobCaptures(pattern, path) is null exactly when
\* globMatch(pattern, path) is false, and a sequence exactly when it is
\* true.
C19_NullIffNoMatch ==
    Globbed("extractGlobCaptures") =>
        (cout.val.null <=> ~globMatch(cmd.pattern, cin))

\* extractGlobCaptures('/a/*', '/b/a') has returned null after extract
\* went into the pattern
C19_Witness ==
    /\ Globbed("extractGlobCaptures")
    /\ cmd.pattern = <<"/", "a", "/", "*">>
    /\ cin = <<"b", "/", "a">>
    /\ cout.val.null

\* Every segment of the pattern is a literal without stars, * or **
WildcardsWhole(pattern) ==
    LET glob == parseGlobSegments(pattern)
    IN  \A i \in 1..Len(glob) :
          glob[i].type = "literal" =>
            \A k \in 1..Len(glob[i].value) : glob[i].value[k] # "*"

\* C20: for a pattern of literal, * and ** segments, globToRegex(pattern)
\* accepts a path exactly when globMatch(pattern, path) is true.
C20_RegexEquivalent ==
    (Globbed("globToRegex") /\ WildcardsWhole(cmd.pattern)) =>
        (cout.val <=> globMatch(cmd.pattern, cin))

----------------------------------------------------------------------------
(* Properties of the template substitutor                                  *)

Substituted == seen.calls > 0 /\ cmd.kind = "template"

\* The text with its j-th occurrence of ${uuid} replaced by ids[j], from
\* offset i
RECURSIVE FreshFrom(_, _, _, _)
FreshFrom(t, ids, i, j) ==
    IF i >= Len(t) THEN <<>>
    ELSE IF OccursAt(t, PhUuid, i)
         THEN ids[j] \o FreshFrom(t, ids, i + Len(PhUuid), j + 1)
    ELSE <<t[i + 1]>> \o FreshFrom(t, ids, i + 1, j)

\* Does any value of the context hold a "$"
Dollars(ctx) ==
    \/ ctx.hasCaptures /\ \E k \in 1..Len(ctx.captures) :
                            \E q \in 1..Len(ctx.captures[k]) :
                              ctx.captures[k][q] = "$"
    \/ ctx.hasInput /\ \E q \in 1..Len(ctx.input) : ctx.input[q] = "$"

\* Does pat occur in t
Occurs(t, pat) == \E i \in 0..Len(t) : OccursAt(t, pat, i)

\* C21: every occurrence of ${uuid} in the template gets an identifier of
\* its own: the generator is called once per occurrence, so that the j-th
\* occurrence holds what the j-th call returned.
C21_UuidPerOccurrence ==
    (Substituted /\ ~cmd.ctx.hasCaptures /\ ~cmd.ctx.hasPath
       /\ ~cmd.ctx.hasInput /\ ~cmd.ctx.hasData) =>
        cout = FreshFrom(cmd.template, cin, 0, 1)

\* C22: ${N} is replaced by the N-th capture when the context has one and
\* by the empty string otherwise; no ${N} is left in the output.
C22_NoCapturePlaceholderLeft ==
    (Substituted /\ ~Dollars(cmd.ctx)) =>
        \A N \in 0..9 : ~Occurs(cout, PhCapture(N))


\* The placeholder written at offset i of the template that the context
\* has a value for, as <<length, value>>; <<0, <<>>>> when there is none
WrittenAt(t, ctx, id, i) ==
    IF ctx.hasCaptures
       /\ \E k \in 1..Len(ctx.captures) : OccursAt(t, PhCapture(k - 1), i)
    THEN LET k == CHOOSE k \in 1..Len(ctx.captures) :
                    OccursAt(t, PhCapture(k - 1), i)
         IN  <<Len(PhCapture(k - 1)), ctx.captures[k]>>
    ELSE IF ctx.hasPath
            /\ \E k \in 1..Len(ctx.path) : OccursAt(t, PhPath(k - 1), i)
    THEN LET k == CHOOSE k \in 1..Len(ctx.path) :
                    OccursAt(t, PhPath(k - 1), i)
         IN  <<Len(PhPath(k - 1)), ctx.path[k]>>
    ELSE IF OccursAt(t, PhUuid, i) THEN <<Len(PhUuid), id>>
    ELSE IF ctx.hasInput /\ OccursAt(t, PhInput, i)
    THEN <<Len(PhInput), ctx.input>>
    ELSE IF ctx.hasData /\ OccursAt(t, PhData, i)
            /\ FieldRun(t, i + Len(PhData)) > 0
            /\ i + Len(PhData) + FieldRun(t, i + Len(PhData)) < Len(t)
            /\ t[i + Len(PhData) + FieldRun(t, i + Len(PhData)) + 1] = "}"
    THEN <<Len(PhData) + FieldRun(t, i + Len(PhData)) + 1, <<>>>>
    ELSE <<0, <<>>>>

\* The template with each placeholder written in it replaced by its value,
\* the value copied as it is, from offset i
RECURSIVE VerbatimFrom(_, _, _, _)
VerbatimFrom(t, ctx, id, i) ==
    IF i >= Len(t) THEN <<>>
    ELSE LET w == WrittenAt(t, ctx, id, i)
         IN  IF w[1] > 0 THEN w[2] \o VerbatimFrom(t, ctx, id, i + w[1])
             ELSE <<t[i + 1]>> \o VerbatimFrom(t, ctx, id, i + 1)

\* C30: only the placeholders written in the template are expanded; what a
\* placeholder is replaced by is copied as it is and is not read again by a
\* later replacement.
C30_InsertedTextVerbatim ==
    Substituted => cout = VerbatimFrom(cmd.template, cmd.ctx, cin[1], 0)


----------------------------------------------------------------------------
(* Properties of a structural command applied again                        *)

\* Does text hold a match of pattern
HasMatch(pattern, text) == Len(findMatches(pattern, text)) > 0

\* No output of the command c holds a match of pattern
Quiet(pattern, c) == \A t \in FixTexts : ~HasMatch(pattern, run(c, t))

AppliedTwice == seen.calls = 2 /\ cmd.kind = "x"

\* C23 as stated: for a command whose every output holds no match of P,
\* x(P, cmd)(x(P, cmd)(T)) = x(P, cmd)(T).
C23_FixedPointAfterOne ==
    (AppliedTwice /\ Quiet(cmd.pattern, cmd.inner)) => cout = cin

\* C23: for a command whose every output holds no match of P, whenever
\* x(P, cmd)(T) itself holds no match of P,
\* x(P, cmd)(x(P, cmd)(T)) = x(P, cmd)(T).
C23_FixedPointWhenQuiet ==
    (AppliedTwice /\ Quiet(cmd.pattern, cmd.inner)
       /\ ~HasMatch(cmd.pattern, cin)) => cout = cin

\* The first application replaced matches, its output holds none, and the
\* second application returned that output
C23_Witness ==
    /\ AppliedTwice
    /\ Quiet(cmd.pattern, cmd.inner)
    /\ HasMatch(cmd.pattern, seen.in)
    /\ seen.out # seen.in
    /\ cin = seen.out
    /\ ~HasMatch(cmd.pattern, cin)
    /\ cout = cin


\* The pattern has no match anywhere in the text
NoMatchIn(pattern, text) == Search(pattern, text, 0).index = NoMatch

\* C24: when P has no match in T (the empty text included), x(P, cmd)(T)
\* and g(P, cmd)(T) are T and cmd is not called; v(P, cmd)(T) and
\* y(P, cmd)(T) are cmd(T) and cmd is called exactly once, on T.
C24_NoMatchDefaults ==
    (seen.calls > 0 /\ cmd.kind \in {"x", "y", "g", "v"}
       /\ NoMatchIn(cmd.pattern, cin)) =>
        IF cmd.kind \in {"x", "g"}
        THEN cout = cin /\ handed = <<>>
        ELSE cout = run(cmd.inner, cin) /\ handed = <<cin>>

\* y was invoked on the empty text, which its pattern does not match, and
\* returned what its command makes of the empty text
C24_Witness ==
    /\ seen.calls > 0
    /\ cmd.kind = "y"
    /\ cmd.inner.op = "wrap"
    /\ NoMatchIn(cmd.pattern, cin)
    /\ cin = <<>>
    /\ cout = <<"[", "]">>
    /\ handed = <<<<>>>>


----------------------------------------------------------------------------
(* Properties of pipe                                                      *)

Piped == seen.calls > 0 /\ cmd.kind = "pipe"

\* C25: pipe() is the identity, pipe(f) is f and pipe(f, g)(T) is g(f(T)):
\* the commands are called once each, in the order given, each on what the
\* one before it returned and the first on T.
C25_PipeLeftToRight ==
    Piped =>
        LET cs == cmd.commands
        IN  /\ Len(cs) = 0 => cout = cin
            /\ Len(cs) = 1 => cout = run(cs[1], cin)
            /\ Len(cs) = 2 => cout = run(cs[2], run(cs[1], cin))
            /\ Len(handed) = Len(cs)
            /\ \A i \in 1..Len(cs) :
                 /\ handed[i].c = cs[i]
                 /\ handed[i].input =
                      IF i = 1 THEN cin
                      ELSE run(cs[i - 1], handed[i - 1].input)
            /\ Len(cs) > 0 => cout = run(cs[Len(cs)], handed[Len(cs)].input)

\* Two commands that do not commute were piped: the text was wrapped and
\* the wrapped text replaced
C25_Witness ==
    /\ Piped
    /\ Len(cmd.commands) = 2
    /\ cmd.commands[1].op = "wrap"
    /\ cmd.commands[2].op = "c"
    /\ cin = <<"a">>
    /\ handed[2].input = <<"[", "a", "]">>
    /\ cout = <<"z">>


----------------------------------------------------------------------------
(* Properties of the fluent builder                                        *)

\* The command-algebra command that applies c inside the selection of the
\* selection step sel
Restricted(sel, c, input) ==
    CASE sel.op = "x" -> x(sel.pattern, c, input)
      [] sel.op = "n" -> n(sel.start, sel.end, c, input)
      [] OTHER -> l(sel.start, sel.end, c, input)

\* C26: a selection step of the builder (x, n or l) restricts the step
\* chained after it to the selection, and value() returns the whole held
\* text, the text outside the selection kept: sre(T).n(i, j).s(P, R).value()
\* is n(i, j, s(P, R))(T) and sre(T).x(P).s(Q, R).value() is
\* x(P, s(Q, R))(T).
C26_SelectionRestricts ==
    (seen.calls > 0 /\ cmd.kind = "sre" /\ Len(cmd.commands) = 2
       /\ cmd.commands[1].op \in {"x", "n", "l"}
       /\ cmd.commands[2].op = "s") =>
        cout = Restricted(cmd.commands[1], cmd.commands[2], cmd.input)


----------------------------------------------------------------------------
(* Properties of the visited set of apply                                  *)

\* The (key, type) pair of the document apply dequeues next
NextPair == <<Head(queue).key, Head(queue).type>>

\* apply dequeues a document and skips it
SkipStep ==
    /\ apPc = "running" /\ queue # <<>>
    /\ queue' = Tail(queue)
    /\ visited' = visited

\* apply dequeues a document and evaluates it against the rules
EvalStep ==
    /\ apPc = "running" /\ queue # <<>>
    /\ visited' # visited

\* C27: within one apply call a dequeued document is skipped exactly when a
\* document with the same key and the same type was evaluated earlier in
\* the call; no document is skipped because of another (key, type) pair.
C27_SkipIffPairEvaluated ==
    [][/\ SkipStep => NextPair \in evaluated
       /\ EvalStep => NextPair \notin evaluated]_vars

=============================================================================
